---- MODULE Spec2Model ----
(***************************************************************************)
(* A model of claude_cli: the stream reader and result aggregator of       *)
(* ClaudeProcessManager (integration.py), its process registry, and the    *)
(* session lifecycle of SessionManager (session.py) as driven by           *)
(* ClaudeIntegration.run_command (facade.py).                              *)
(*                                                                         *)
(* Three specifications share the module's variables; each moves one       *)
(* group of them and leaves the others at their initial values:            *)
(*   SpecStream  one execution's _handle_process_output / _parse_result    *)
(*   SpecProc    concurrent execute_command calls and kill_all_processes   *)
(*   SpecSess    concurrent run_command calls on one SessionManager        *)
(***************************************************************************)
EXTENDS Integers, Sequences, FiniteSets, TLC

VARIABLES
    \* ---- one execution's reader (integration.py, _handle_process_output)
    hpc,             \* "read" | "wait" | "exited" | "done"
    frames,          \* history: every line that passed validation, in stream order
    nlines,          \* lines yielded by _read_stream_bounded so far
    lines,           \* history: the lines yielded so far, in stream order
    message_buffer,  \* deque(maxlen = max_message_buffer)
    result,          \* the last frame of type result, or NoFrame
    updates,         \* StreamUpdates offered to stream_callback, in order
    stream_callback, \* what a call of the callback does: "returns" | "raises" | "not_awaitable"
    agent_output,    \* what the agent process can write: its stdout lines and stderr texts
    return_code,     \* process.wait()
    error_msg,       \* the stderr text, decoded
    failure,          \* the failure raised for a non-zero exit code
    outcome,         \* "none" | "response" | an exception name
    response,        \* the ClaudeResponse returned (NoResponse until then)
    \* ---- concurrent executions (integration.py, execute_command, kill_all_processes)
    xpc,               \* per execution: "init" | "handling" | "timeout_wait" | "done"
    proc,              \* per execution's process: "none" | "running" | "orphaned" | "exited"
    exit_code,         \* per process: its return code once exited
    active_processes,  \* keys of self.active_processes
    xoutcome,          \* per execution: what execute_command returned or raised
    timed_out,         \* history: asyncio.TimeoutError was raised in the execution
    kpc,               \* kill_all_processes: "idle" | "wait" | "returned" | "raised"
    it_used,           \* the dict iterator's size snapshot (di_used)
    it_keys,           \* history: the keys when the iterator was created
    visited,           \* keys the loop body of kill_all_processes has run for
    kcur,              \* the key whose process kill_all_processes awaits
    k_end,             \* history: the registry when kill_all_processes ended
    \* ---- sessions (session.py, SessionManager; facade.py, run_command)
    now,              \* datetime.utcnow(), in hours
    nObj,             \* ClaudeSession objects created so far (object n has placeholder id n)
    obj,              \* the fields of each ClaudeSession object
    active_sessions,  \* SessionManager.active_sessions: id -> object (0: no entry)
    sessions,         \* InMemorySessionStorage.sessions: id -> object (0: no entry)
    tpc,              \* per task: the await at which its run_command is suspended
    loc,              \* per task: the local variables of run_command and its callees
    ncalls,           \* run_command calls made so far
    nAgent,           \* session ids the agent process has assigned so far
    resume_ids,       \* history: ids passed to the agent process with --resume
    rename_log,       \* history: what lookups gave when update_session returned from a rename
    \* ---- one call of _build_command (integration.py)
    config,           \* the ClaudeConfig the manager was constructed with
    build_args,       \* its arguments: prompt, session_id, continue_session
    command,          \* the argument list it returned (<<>> until then)
    \* ---- one run of _read_stream_bounded (integration.py)
    stdout_bytes,     \* the bytes the process writes to stdout
    nread,            \* how many of them stream.read has returned
    buffer,           \* the bytes read and not yet yielded
    yielded,          \* the lines yielded so far, in order
    rpc,              \* "read" | "done"
    \* ---- one agent process and its pipes (integration.py, _start_process)
    apc,            \* the process: "stderr" | "exit" | "exited" | "killed"
    stderr_todo,    \* what the process has yet to write to stderr before its result
    stderr_pipe,    \* bytes in the operating system's stderr pipe
    stderr_buffer,  \* bytes in the StreamReader of process.stderr
    stdout_pipe,    \* lines in the stdout pipe
    ppc,            \* the execution: "read" | "wait" | "timeout_wait" | "done"
    got_result,     \* the reader has seen the result frame
    pipe_outcome,   \* what execute_command returned or raised
    \* ---- a session on its way through durable storage (session.py, to_dict and
    \* from_dict; redis_storage.py, save_session and load_session)
    saved,          \* the ClaudeSession given to save_session
    session_data,   \* what save_session wrote: session.to_dict(), as JSON
    loaded,         \* the ClaudeSession load_session returned
    dpc             \* "save" | "load" | "done"

streamVars == <<hpc, frames, nlines, lines, message_buffer, result, updates, stream_callback,
                agent_output,
                return_code, error_msg, failure, outcome, response>>

procVars == <<xpc, proc, exit_code, active_processes, xoutcome, timed_out,
              kpc, it_used, it_keys, visited, kcur, k_end>>

sessVars == <<now, nObj, obj, active_sessions, sessions, tpc, loc, ncalls,
              nAgent, resume_ids, rename_log>>

cmdVars == <<config, build_args, command>>

readVars == <<stdout_bytes, nread, buffer, yielded, rpc>>

pipeVars == <<apc, stderr_todo, stderr_pipe, stderr_buffer, stdout_pipe, ppc, got_result,
              pipe_outcome>>

dictVars == <<saved, session_data, loaded, dpc>>

vars == <<streamVars, procVars, sessVars, cmdVars, readVars, pipeVars, dictVars>>

(***************************************************************************)
(* Bounds of the model.                                                    *)
(***************************************************************************)
MaxLines == 4
NExec == 2
NTask == 2
MaxObj == 4
MaxCalls == 2
MaxNow == 1
MaxPre == 2
MaxAgent == 3

\* ClaudeConfig.session_timeout_hours (24) and max_sessions_per_user (5; 10 in
\* minimal_server.py), scaled down
session_timeout_hours == 0
max_sessions_per_user == 2

\* self.max_message_buffer is 1000 in the source; the model keeps the deque
\* and its eviction and scales the length down.
max_message_buffer == 3

\* ClaudeConfig.claude_binary_path, claude_max_turns (as the text str() gives)
claude_binary_path == "claude"
claude_max_turns == "50"

\* ClaudeConfig.__post_init__: the default allow-list replaces None only.
\* A list is written as the text ",".join gives ("" for the empty list).
DefaultAllowedTools == "Read,Write,Edit,Bash,Glob,Grep,Task,WebFetch,WebSearch,TodoWrite,MultiEdit,NotebookRead,NotebookEdit,LS"
AllowedToolsArgs == {"None", "", "Read", "Read,Write,Edit"}
ClaudeConfig(allowed_tools) ==
    [claude_allowed_tools |->
        IF allowed_tools = "None" THEN DefaultAllowedTools ELSE allowed_tools]

\* self.config.claude_allowed_tools
claude_allowed_tools == config.claude_allowed_tools

(***************************************************************************)
(* Frames: the JSON objects of the stream, by the fields the code reads.   *)
(***************************************************************************)
Block(bt, name, id, text) == [btype |-> bt, name |-> name, id |-> id, text |-> text]
TextBlock(t) == Block("text", "", "", t)
ToolUse(name, id) == Block("tool_use", name, id, "")
ToolResult(id, c) == Block("tool_result", "", id, c)

\* shape "list": message.content is a list of blocks; "str": a plain string,
\* kept in raw. For a tool_result frame the shape is that of its result
\* field: "dict" or "str". Type "" stands for an object without a type field.
Msg(type, shape, content, sid) ==
    [type |-> type, shape |-> shape, content |-> content, session_id |-> sid,
     raw |-> ""]

NoFrame == Msg("none", "list", <<>>, "")

AsstBash == Msg("assistant", "list", <<ToolUse("Bash", "tu1")>>, "")
AsstTask == Msg("assistant", "list", <<ToolUse("Task", "tu2")>>, "")
AsstText == Msg("assistant", "list", <<TextBlock("summary")>>, "")
UserRes1 == Msg("user", "list", <<ToolResult("tu1", "r1")>>, "")
UserRes2 == Msg("user", "list", <<ToolResult("tu2", "r2")>>, "")
UserStr  == [Msg("user", "str", <<>>, "") EXCEPT !.raw = "hello"]
SysInit  == Msg("system", "list", <<>>, "")
ResultFrame == Msg("result", "list", <<>>, "sess-a")
ToolResDict == Msg("tool_result", "dict", <<>>, "")
ToolResStr == [Msg("tool_result", "str", <<>>, "") EXCEPT !.raw = "plain"]
ErrorFrame == Msg("error", "list", <<>>, "")
ProgressFrame == Msg("progress", "list", <<>>, "")
OtherFrame == Msg("foo", "list", <<>>, "")
NoTypeFrame == Msg("", "list", <<>>, "")
UserMixed == Msg("user", "list", <<TextBlock("note"), ToolResult("tu1", "r1")>>, "")
AsstHi == Msg("assistant", "list", <<TextBlock("hi")>>, "")
AsstMixed ==
    Msg("assistant", "list",
        <<TextBlock("a"), ToolUse("Bash", "tu1"), TextBlock("b"), ToolUse("Task", "tu2")>>, "")

\* A line of stdout: a JSON object (kind "object"), text that is not JSON
\* ("garbled"), or a JSON scalar such as 5 or null ("scalar").
Line(kind, msg) == [kind |-> kind, msg |-> msg]

CoreLines ==
    {Line("object", m) : m \in {AsstBash, AsstTask, AsstText, UserRes1, UserRes2,
                                UserStr, SysInit, ResultFrame}}
    \cup {Line("garbled", NoFrame), Line("scalar", NoFrame)}
Lines ==
    CoreLines
    \cup {Line("object", m) : m \in {ToolResDict, ToolResStr, ErrorFrame, ProgressFrame,
                                      OtherFrame, NoTypeFrame, UserMixed, AsstHi,
                                      AsstMixed}}

\* a stderr text is a sequence of fragments; `phrase in text` holds when one
\* of its fragments is the phrase
StderrFragments ==
    {"Not Authenticated", "could not resume", "Usage Limit Reached", "reset at 3pm"}
MaxStderr == 2
StderrTexts == UNION {[1..n -> StderrFragments] : n \in 0..MaxStderr}
CoreStderr ==
    {<<>>, <<"Not Authenticated">>, <<"could not resume">>, <<"Usage Limit Reached">>}

\* The agent processes of the executions checked: one that writes the frames
\* of a conversation, one that writes frames of every type and shape, one
\* that writes only its result frame and fails with any stderr text.
AgentOutput(stdout, stderr) == [stdout |-> stdout, stderr |-> stderr]
CoreOutput == AgentOutput(CoreLines, CoreStderr)
FrameOutput == AgentOutput(Lines, {<<>>})
ExitOutput == AgentOutput({Line("object", ResultFrame)}, StderrTexts)

\* str.lower() of a fragment
lower(f) ==
    CASE f = "Not Authenticated" -> "not authenticated"
      [] f = "Usage Limit Reached" -> "usage limit reached"
      [] OTHER -> f

\* error_msg.lower()
Lowered(e) == [i \in 1..Len(e) |-> lower(e[i])]

\* phrase in text
Contains(text, phrase) == \E i \in 1..Len(text) : text[i] = phrase

\* the phrase lists of lines 369-374 and 390-395
AuthPhrases ==
    {"not authenticated", "authentication failed",
     "please run 'claude setup-token'", "no valid token found"}
SessionPhrases ==
    {"session not found", "invalid session", "session expired", "could not resume"}

\* re.search(r"reset at (\d+[apm]+)", error_msg, re.IGNORECASE), "later" without a match
reset_time(e) == IF Contains(e, "reset at 3pm") THEN "3pm" ELSE "later"

Failure(type, message, time, code, stderr) ==
    [type |-> type, message |-> message, reset_time |-> time,
     code |-> code, stderr |-> stderr]
NoError == Failure("", "", "", 0, <<>>)

\* the failure raised for a non-zero exit code (lines 356-436)
\* (variant: the session phrases are tested before the authentication phrases)
ClassifyExitSessionFirst(rc, e) ==
    IF \E ph \in SessionPhrases : Contains(Lowered(e), ph)
    THEN Failure("ClaudeSessionError", "Claude Session Invalid", "", 0, <<>>)
    ELSE IF \E ph \in AuthPhrases : Contains(Lowered(e), ph)
    THEN Failure("ClaudeProcessError", "Claude Authentication Required", "", 0, <<>>)
    ELSE IF Contains(Lowered(e), "usage limit reached")
    THEN Failure("ClaudeProcessError", "Claude AI Usage Limit Reached", reset_time(e), 0, <<>>)
    ELSE Failure("ClaudeProcessError", "Claude Code exited with code", "", rc, e)
ClassifyExit(rc, e) ==
    IF \E ph \in AuthPhrases : Contains(Lowered(e), ph)
    THEN Failure("ClaudeProcessError", "Claude Authentication Required", "", 0, <<>>)
    ELSE IF \E ph \in SessionPhrases : Contains(Lowered(e), ph)
    THEN Failure("ClaudeSessionError", "Claude Session Invalid", "", 0, <<>>)
    ELSE IF Contains(Lowered(e), "usage limit reached")
    THEN Failure("ClaudeProcessError", "Claude AI Usage Limit Reached", reset_time(e), 0, <<>>)
    ELSE Failure("ClaudeProcessError", "Claude Code exited with code", "", rc, e)
ReturnCodes == {0, 1}

(***************************************************************************)
(* Sequence helpers.                                                       *)
(***************************************************************************)
RECURSIVE Concat(_)
Concat(ss) == IF ss = <<>> THEN <<>> ELSE Head(ss) \o Concat(Tail(ss))

IsToolUse(b) == b.btype = "tool_use"
IsToolResult(b) == b.btype = "tool_result"
IsText(b) == b.btype = "text"

\* deque.append with maxlen: the oldest entry is dropped once the deque is full
DequeAppend(buf, m) ==
    IF Len(buf) >= max_message_buffer THEN Append(Tail(buf), m) ELSE Append(buf, m)

(***************************************************************************)
(* _parse_stream_message: the update offered to the callback, if any.      *)
(***************************************************************************)
NoUpdate == [type |-> "none", text |-> <<>>, tool_calls |-> <<>>]

TextsOf(m) == [i \in 1..Len(SelectSeq(m.content, IsText)) |->
                  SelectSeq(m.content, IsText)[i].text]

\* _validate_message_structure: "type" in msg
_validate_message_structure(m) == m.type /= ""

\* _parse_tool_result_message raises AttributeError at result.get when the
\* result field is not a dict (line 545)
ParseStreamRaises(m) == m.type = "tool_result" /\ m.shape /= "dict"

\* _parse_assistant_message (lines 494-522): the texts of the text blocks and
\* name and id of the tool_use blocks, each in block order
\* (variant: the first text block only)
_parse_assistant_message_first(m) ==
    [type |-> "assistant",
     text |-> IF TextsOf(m) = <<>> THEN <<>> ELSE <<Head(TextsOf(m))>>,
     tool_calls |-> [i \in 1..Len(SelectSeq(m.content, IsToolUse)) |->
                        [name |-> SelectSeq(m.content, IsToolUse)[i].name,
                         id |-> SelectSeq(m.content, IsToolUse)[i].id]]]
_parse_assistant_message(m) ==
    [type |-> "assistant",
     text |-> TextsOf(m),
     tool_calls |-> [i \in 1..Len(SelectSeq(m.content, IsToolUse)) |->
                        [name |-> SelectSeq(m.content, IsToolUse)[i].name,
                         id |-> SelectSeq(m.content, IsToolUse)[i].id]]]

\* (variant: every frame with a type yields an update of that type)
_parse_stream_message_any(m) == [type |-> m.type, text |-> <<>>, tool_calls |-> <<>>]

\* The text of an update is the sequence of the segments that "\n".join
\* joins; <<>> stands for None.
_parse_stream_message(m) ==
    CASE m.type = "assistant" -> _parse_assistant_message(m)
      [] m.type = "user" ->
            [type |-> "user",
             text |-> IF m.shape = "str"
                      THEN (IF m.raw /= "" THEN <<m.raw>> ELSE <<>>)
                      ELSE TextsOf(m),
             tool_calls |-> <<>>]
      [] m.type \in {"system", "tool_result", "error", "progress"} ->
            [type |-> m.type, text |-> <<>>, tool_calls |-> <<>>]
      [] OTHER -> NoUpdate

(***************************************************************************)
(* _parse_result over the retained messages.                               *)
(***************************************************************************)
AssistantMsgs(messages) == SelectSeq(messages, LAMBDA m : m.type = "assistant")
UserMsgs(messages) == SelectSeq(messages, LAMBDA m : m.type = "user")

\* the tool_result blocks of the user frames, in order (lines 679-710)
ResultBlocks(messages) ==
    SelectSeq(Concat([i \in 1..Len(UserMsgs(messages)) |-> UserMsgs(messages)[i].content]),
              IsToolResult)

\* tool_results[id]: the last assignment wins
InToolResults(messages, id) ==
    \E i \in 1..Len(ResultBlocks(messages)) : ResultBlocks(messages)[i].id = id
ToolResultOf(messages, id) ==
    LET rb == ResultBlocks(messages)
        last == CHOOSE i \in 1..Len(rb) :
                    rb[i].id = id /\ \A j \in (i+1)..Len(rb) : rb[j].id /= id
    IN rb[last].text

\* task_tool_summary (lines 714-732): message i is an assistant frame with a
\* text block and message i-1 an assistant frame with a Task tool_use
SummaryAt(messages, i, id) ==
    /\ i > 1
    /\ messages[i].type = "assistant"
    /\ messages[i-1].type = "assistant"
    /\ \E k \in 1..Len(messages[i-1].content) :
          /\ IsToolUse(messages[i-1].content[k])
          /\ messages[i-1].content[k].name = "Task"
          /\ messages[i-1].content[k].id = id
    /\ SelectSeq(messages[i].content, IsText) /= <<>>
InTaskSummary(messages, id) == \E i \in 1..Len(messages) : SummaryAt(messages, i, id)
TaskSummaryOf(messages, id) ==
    LET last == CHOOSE i \in 1..Len(messages) :
                    SummaryAt(messages, i, id)
                    /\ \A j \in (i+1)..Len(messages) : ~SummaryAt(messages, j, id)
    IN Head(SelectSeq(messages[last].content, IsText)).text

\* one tools_used entry (lines 742-759)
ToolEntry(messages, b) ==
    IF b.id /= "" /\ InToolResults(messages, b.id)
    THEN [name |-> b.name, id |-> b.id, has_result |-> TRUE,
          result |-> ToolResultOf(messages, b.id)]
    ELSE IF b.name = "Task" /\ InTaskSummary(messages, b.id)
    THEN [name |-> b.name, id |-> b.id, has_result |-> TRUE,
          result |-> TaskSummaryOf(messages, b.id)]
    ELSE [name |-> b.name, id |-> b.id, has_result |-> FALSE, result |-> ""]

ToolUseBlocks(messages) ==
    SelectSeq(Concat([i \in 1..Len(AssistantMsgs(messages)) |->
                         AssistantMsgs(messages)[i].content]),
              IsToolUse)

ToolsUsed(messages) ==
    [i \in 1..Len(ToolUseBlocks(messages)) |-> ToolEntry(messages, ToolUseBlocks(messages)[i])]

\* iterating a str content block by block calls .get on a character (line 683)
ParseResultRaises(messages) ==
    \E i \in 1..Len(messages) :
        messages[i].type = "user" /\ messages[i].shape = "str" /\ messages[i].raw /= ""

NoResponse == [session_id |-> "", tools_used |-> <<>>]
_parse_result(res, messages) ==
    [session_id |-> res.session_id, tools_used |-> ToolsUsed(messages)]

(***************************************************************************)
(* _handle_process_output, one action per step of the loop and of the      *)
(* code after it.                                                          *)
(***************************************************************************)
\* the caller's stream_callback: an async function that returns, an async
\* function that raises, or a plain function, whose return value `await` rejects
CallbackKinds == {"returns", "raises", "not_awaitable"}

\* what `await stream_callback(update)` raises (line 325)
CallbackRaises(kind) ==
    CASE kind = "raises" -> "Exception"
      [] kind = "not_awaitable" -> "TypeError"
      [] OTHER -> ""

\* `except Exception` around the call of the callback (lines 326-331)
except_awaited(exc) == exc /= "TypeError"
except_Exception(exc) == exc \in {"Exception", "TypeError"}

StreamInit ==
    /\ hpc = "read"
    /\ frames = <<>>
    /\ nlines = 0
    /\ lines = <<>>
    /\ message_buffer = <<>>
    /\ result = NoFrame
    /\ updates = <<>>
    /\ stream_callback \in CallbackKinds
    /\ agent_output \in {CoreOutput, FrameOutput, ExitOutput}
    /\ return_code = 0
    /\ error_msg = <<>>
    /\ failure = NoError
    /\ outcome = "none"
    /\ response = NoResponse

\* json.loads(line) raises json.JSONDecodeError (line 313)
JSONDecodeErrorNever(l) == FALSE
JSONDecodeError(l) == l.kind = "garbled"

\* the loop body for one line (lines 311-343)
ReadLine(l) ==
    /\ hpc = "read"
    /\ l \in agent_output.stdout
    /\ nlines < MaxLines
    /\ nlines' = nlines + 1
    /\ lines' = Append(lines, l)
    /\ CASE JSONDecodeError(l) ->
              \* json.JSONDecodeError: recorded, the line is skipped
              UNCHANGED <<hpc, frames, message_buffer, result, updates, outcome>>
         [] l.kind = "scalar" ->
              \* _validate_message_structure: `"type" in 5` raises TypeError,
              \* which the loop does not catch
              /\ hpc' = "done"
              /\ outcome' = "TypeError"
              /\ UNCHANGED <<frames, message_buffer, result, updates>>
         [] l.kind = "object" /\ ~_validate_message_structure(l.msg) ->
              \* recorded as a parsing error, the line is skipped (lines 316-318)
              UNCHANGED <<hpc, frames, message_buffer, result, updates, outcome>>
         [] l.kind = "object" /\ ParseStreamRaises(l.msg) ->
              \* the frame is buffered, then _parse_stream_message raises
              \* outside the callback's try (lines 320-323)
              /\ frames' = Append(frames, l.msg)
              /\ message_buffer' = DequeAppend(message_buffer, l.msg)
              /\ hpc' = "done"
              /\ outcome' = "AttributeError"
              /\ UNCHANGED <<result, updates>>
         [] OTHER ->
              LET update == _parse_stream_message(l.msg)
                  raised == IF update /= NoUpdate THEN CallbackRaises(stream_callback)
                            ELSE ""
              IN /\ frames' = Append(frames, l.msg)
                 /\ message_buffer' = DequeAppend(message_buffer, l.msg)
                 /\ updates' = IF update /= NoUpdate THEN Append(updates, update)
                               ELSE updates
                 /\ IF raised /= "" /\ ~except_Exception(raised)
                    THEN \* the exception leaves the loop
                         /\ hpc' = "done"
                         /\ outcome' = raised
                         /\ UNCHANGED result
                    ELSE /\ result' = IF l.msg.type = "result" THEN l.msg ELSE result
                         /\ UNCHANGED <<hpc, outcome>>
    /\ UNCHANGED <<return_code, error_msg, failure, response, stream_callback, agent_output>>

\* stdout reaches end of file: the loop ends (line 311)
StreamEnd ==
    /\ hpc = "read"
    /\ hpc' = "wait"
    /\ UNCHANGED <<frames, nlines, lines, message_buffer, result, updates, stream_callback,
                   agent_output,
                   return_code, error_msg, failure, outcome, response>>

\* process.wait() returns, stderr is read (lines 354-358)
ProcessWait ==
    /\ hpc = "wait"
    /\ \E rc \in ReturnCodes :
          /\ return_code' = rc
          \* stderr is read only for a non-zero exit code
          /\ IF rc /= 0
             THEN \E e \in agent_output.stderr : error_msg' = e
             ELSE error_msg' = error_msg
    /\ hpc' = "exited"
    /\ UNCHANGED <<frames, nlines, lines, message_buffer, result, updates, stream_callback,
                   agent_output,
                   failure, outcome, response>>

\* what the code after the loop returns or raises (lines 356-442)
\* (variant: a missing result frame is not checked)
FinishOutcomePartial(rc, e, res, messages) ==
    IF rc /= 0 THEN ClassifyExit(rc, e).type
    ELSE IF ParseResultRaises(messages) THEN "AttributeError"
    ELSE "response"
\* (variant: a result frame on the stream wins over the exit code)
FinishOutcomeResultFirst(rc, e, res, messages) ==
    IF res /= NoFrame
    THEN IF ParseResultRaises(messages) THEN "AttributeError" ELSE "response"
    ELSE IF rc /= 0 THEN ClassifyExit(rc, e).type
    ELSE "ClaudeParsingError"
FinishOutcome(rc, e, res, messages) ==
    IF rc /= 0 THEN ClassifyExit(rc, e).type
    ELSE IF res = NoFrame THEN "ClaudeParsingError"
    ELSE IF ParseResultRaises(messages) THEN "AttributeError"
    ELSE "response"

Finish ==
    /\ hpc = "exited"
    /\ hpc' = "done"
    /\ outcome' = FinishOutcome(return_code, error_msg, result, message_buffer)
    /\ failure' = IF return_code /= 0 THEN ClassifyExit(return_code, error_msg) ELSE NoError
    /\ response' = IF outcome' = "response"
                   THEN _parse_result(result, message_buffer)
                   ELSE NoResponse
    /\ UNCHANGED <<frames, nlines, lines, message_buffer, result, updates, stream_callback,
                   agent_output,
                   return_code, error_msg>>

\* asyncio.wait_for cancels the coroutine at an await (integration.py 137-140)
Cancelled ==
    /\ hpc \in {"read", "wait"}
    /\ hpc' = "done"
    /\ outcome' = "TimeoutError"
    /\ UNCHANGED <<frames, nlines, lines, message_buffer, result, updates, stream_callback,
                   agent_output,
                   return_code, error_msg, failure, response>>

StreamNext ==
    \/ \E l \in Lines : ReadLine(l) /\ UNCHANGED <<procVars, sessVars, cmdVars, readVars, pipeVars, dictVars>>
    \/ StreamEnd /\ UNCHANGED <<procVars, sessVars, cmdVars, readVars, pipeVars, dictVars>>
    \/ ProcessWait /\ UNCHANGED <<procVars, sessVars, cmdVars, readVars, pipeVars, dictVars>>
    \/ Finish /\ UNCHANGED <<procVars, sessVars, cmdVars, readVars, pipeVars, dictVars>>
    \/ Cancelled /\ UNCHANGED <<procVars, sessVars, cmdVars, readVars, pipeVars, dictVars>>

(***************************************************************************)
(* execute_command, one execution per process id, and kill_all_processes.  *)
(* An action runs the code from one await to the next.                     *)
(***************************************************************************)
Execs == 1..NExec

ProcInit ==
    /\ xpc = [e \in Execs |-> "init"]
    /\ proc = [e \in Execs |-> "none"]
    /\ exit_code = [e \in Execs |-> 0]
    /\ active_processes = {}
    /\ xoutcome = [e \in Execs |-> "none"]
    /\ timed_out = [e \in Execs |-> FALSE]
    /\ kpc = "idle"
    /\ it_used = 0
    /\ it_keys = {}
    /\ visited = {}
    /\ kcur = 0
    /\ k_end = {}

killUnchanged == UNCHANGED <<kpc, it_used, it_keys, visited, kcur, k_end>>

\* finally: the registry entry is removed if present (lines 175-178)
ExecuteFinallyOnSuccess(reg, e, how) == IF how = "response" THEN reg \ {e} ELSE reg
ExecuteFinally(reg, e, how) == reg \ {e}

\* the execution leaves execute_command with `how`
Leave(e, how) ==
    /\ xpc' = [xpc EXCEPT ![e] = "done"]
    /\ xoutcome' = [xoutcome EXCEPT ![e] = how]
    /\ active_processes' = ExecuteFinally(active_processes, e, how)

\* _start_process returns and the process is registered (lines 133-134);
\* the execution then suspends inside asyncio.wait_for
StartProcess(e) ==
    /\ xpc[e] = "init"
    /\ xpc' = [xpc EXCEPT ![e] = "handling"]
    /\ proc' = [proc EXCEPT ![e] = "running"]
    /\ active_processes' = active_processes \cup {e}
    /\ UNCHANGED <<exit_code, xoutcome, timed_out>>
    /\ killUnchanged

\* create_subprocess_exec raises (no such binary): nothing was registered
StartFails(e) ==
    /\ xpc[e] = "init"
    /\ Leave(e, "OSError")
    /\ UNCHANGED <<proc, exit_code, timed_out>>
    /\ killUnchanged

\* What becomes of a process that ends: "exited" when the event loop sees the
\* end of its stdout and stderr pipes with it, "orphaned" when it does not: a
\* child process it started has inherited the pipes (stdout=PIPE,
\* stderr=PIPE, lines 293-301) and holds them open, or reading of stderr has
\* been paused because more than twice the limit (line 300) is buffered
EndStates == {"exited", "orphaned"}

\* the process ends of its own accord
ProcessExits(e) ==
    /\ proc[e] = "running"
    /\ \E st \in EndStates : proc' = [proc EXCEPT ![e] = st]
    /\ \E rc \in ReturnCodes : exit_code' = [exit_code EXCEPT ![e] = rc]
    /\ UNCHANGED <<xpc, active_processes, xoutcome, timed_out>>
    /\ killUnchanged

\* the last child process holding the pipes of an ended process closes them
PipesClosed(e) ==
    /\ proc[e] = "orphaned"
    /\ proc' = [proc EXCEPT ![e] = "exited"]
    /\ UNCHANGED exit_code
    /\ UNCHANGED <<xpc, active_processes, xoutcome, timed_out>>
    /\ killUnchanged

\* _handle_process_output ends after process.wait() (lines 354-442)
HandleReturns(e) ==
    /\ xpc[e] = "handling"
    /\ proc[e] = "exited"
    /\ \E how \in IF exit_code[e] = 0
                   THEN {"response", "ClaudeParsingError", "AttributeError"}
                   ELSE {"ClaudeProcessError", "ClaudeSessionError"} :
          Leave(e, how)
    /\ UNCHANGED <<proc, exit_code, timed_out>>
    /\ killUnchanged

\* an exception escapes the reader loop (a JSON scalar line) while the
\* process may still be running (lines 167-178)
HandleRaises(e) ==
    /\ xpc[e] = "handling"
    /\ Leave(e, "TypeError")
    /\ UNCHANGED <<proc, exit_code, timed_out>>
    /\ killUnchanged

\* Process.kill(): SIGKILL for a running process; for a process that has
\* ended it does nothing or, once the transport is closed (which takes the
\* pipes to be closed), raises ProcessLookupError
KillOutcomes(e) ==
    CASE proc[e] = "running" -> {"killed"}
      [] proc[e] = "orphaned" -> {"noop"}
      [] OTHER -> {"noop", "ProcessLookupError"}
\* SIGKILL ends the process itself, not the child processes it started
Killed(e) ==
    /\ \E st \in EndStates : proc' = [proc EXCEPT ![e] = st]
    /\ exit_code' = [exit_code EXCEPT ![e] = IF proc[e] = "running" THEN -9 ELSE @]

\* asyncio.wait_for (lines 137-140): when the timeout has elapsed the handler
\* is cancelled at the await where it is suspended, be it the read of stdout,
\* the stream callback, process.wait() or the read of stderr
wait_for(e) == xpc[e] = "handling"

\* asyncio.TimeoutError (lines 151-165): kill, then await the exit.  For a
\* process that has already exited wait() returns without suspending.
Timeout(e) ==
    /\ wait_for(e)
    /\ timed_out' = [timed_out EXCEPT ![e] = TRUE]
    /\ IF e \in active_processes
       THEN \E k \in KillOutcomes(e) :
              CASE k = "ProcessLookupError" ->
                     /\ Leave(e, "ProcessLookupError")
                     /\ UNCHANGED <<proc, exit_code>>
                [] k = "noop" ->
                     /\ Leave(e, "ClaudeTimeoutError")
                     /\ UNCHANGED <<proc, exit_code>>
                [] OTHER ->
                     /\ Killed(e)
                     /\ xpc' = [xpc EXCEPT ![e] = "timeout_wait"]
                     /\ UNCHANGED <<active_processes, xoutcome>>
       ELSE /\ Leave(e, "ClaudeTimeoutError")
            /\ UNCHANGED <<proc, exit_code>>
    /\ killUnchanged

\* process.wait() returns in the timeout handler; ClaudeTimeoutError is raised.
\* A wait() that began while the process was running is resumed when the
\* subprocess transport is finished: the process has ended and its pipes
\* are closed.
TimeoutRaise(e) ==
    /\ xpc[e] = "timeout_wait"
    /\ proc[e] = "exited"
    /\ Leave(e, "ClaudeTimeoutError")
    /\ UNCHANGED <<proc, exit_code, timed_out>>
    /\ killUnchanged

execUnchanged == UNCHANGED <<xpc, xoutcome, timed_out>>

\* "dictionary changed size during iteration" leaves kill_all_processes
\* before self.active_processes.clear()
KillAllRuntimeError ==
    /\ kpc' = "raised"
    /\ k_end' = active_processes
    /\ UNCHANGED <<kcur, visited, proc, exit_code, active_processes>>

\* the iterator is exhausted: self.active_processes.clear() (line 789)
KillAllClear(vis) ==
    /\ kpc' = "returned"
    /\ visited' = vis
    /\ k_end' = active_processes \ vis
    /\ active_processes' = {}
    /\ UNCHANGED <<kcur, proc, exit_code>>

\* The for statement from one await to the next (lines 779-789).  The
\* iterator raises RuntimeError when the dict's size differs from its
\* snapshot.  Otherwise the loop body runs for the next keys: for a process
\* that has exited, kill() is a no-op or raises ProcessLookupError (caught),
\* and wait() returns at once, so the loop goes on without suspending (the
\* keys in F); for a running process kill() is followed by a suspending
\* wait().  If keys were replaced while the size stayed the same, the
\* iteration may also raise or end before all keys were seen.
IterStep(used, keys, vis) ==
    IF Cardinality(active_processes) /= used
    THEN KillAllRuntimeError
    ELSE \/ /\ active_processes /= keys
            /\ KillAllClear(vis) \/ KillAllRuntimeError
         \/ \E F \in SUBSET {p \in active_processes \ vis : proc[p] \in EndStates} :
               \/ /\ (active_processes \ vis) \ F = {}
                  /\ KillAllClear(vis \cup F)
               \/ \E p \in (active_processes \ vis) \ F :
                     /\ proc[p] = "running"
                     /\ Killed(p)
                     /\ kpc' = "wait"
                     /\ kcur' = p
                     /\ visited' = vis \cup F
                     /\ UNCHANGED <<k_end, active_processes>>

\* kill_all_processes is called: the iterator is created and stepped
KillAllStart ==
    /\ kpc = "idle"
    /\ it_used' = Cardinality(active_processes)
    /\ it_keys' = active_processes
    /\ IterStep(Cardinality(active_processes), active_processes, {})
    /\ execUnchanged

\* `await process.wait()` returns in the loop body (line 782) and the
\* iterator is stepped again
KillAllWaitDone ==
    /\ kpc = "wait"
    /\ proc[kcur] = "exited"
    /\ IterStep(it_used, it_keys, visited \cup {kcur})
    /\ UNCHANGED <<it_used, it_keys>>
    /\ execUnchanged

ProcNext ==
    \/ \E e \in Execs : StartProcess(e) /\ UNCHANGED <<streamVars, sessVars, cmdVars, readVars, pipeVars, dictVars>>
    \/ \E e \in Execs : StartFails(e) /\ UNCHANGED <<streamVars, sessVars, cmdVars, readVars, pipeVars, dictVars>>
    \/ \E e \in Execs : ProcessExits(e) /\ UNCHANGED <<streamVars, sessVars, cmdVars, readVars, pipeVars, dictVars>>
    \/ \E e \in Execs : PipesClosed(e) /\ UNCHANGED <<streamVars, sessVars, cmdVars, readVars, pipeVars, dictVars>>
    \/ \E e \in Execs : HandleReturns(e) /\ UNCHANGED <<streamVars, sessVars, cmdVars, readVars, pipeVars, dictVars>>
    \/ \E e \in Execs : HandleRaises(e) /\ UNCHANGED <<streamVars, sessVars, cmdVars, readVars, pipeVars, dictVars>>
    \/ \E e \in Execs : Timeout(e) /\ UNCHANGED <<streamVars, sessVars, cmdVars, readVars, pipeVars, dictVars>>
    \/ \E e \in Execs : TimeoutRaise(e) /\ UNCHANGED <<streamVars, sessVars, cmdVars, readVars, pipeVars, dictVars>>
    \/ KillAllStart /\ UNCHANGED <<streamVars, sessVars, cmdVars, readVars, pipeVars, dictVars>>
    \/ KillAllWaitDone /\ UNCHANGED <<streamVars, sessVars, cmdVars, readVars, pipeVars, dictVars>>

(***************************************************************************)
(* Sessions: SessionManager (session.py) driven by concurrent calls of     *)
(* ClaudeIntegration.run_command (facade.py).  A task runs from one await  *)
(* to the next in one step.  Every SessionStorage call is an await: the    *)
(* storage is RedisSessionStorage on its in-memory fallback                *)
(* (redis_storage.py, _execute_with_fallback), which suspends in           *)
(* _ensure_connection and then acts on InMemorySessionStorage.sessions, a  *)
(* dict of references to the ClaudeSession objects.  The effect of a       *)
(* storage call is applied in the step that resumes the caller.            *)
(* project_path and created_at are not modelled (no modelled code reads    *)
(* them); execute_command is its outcome.  Durable storage outlives the    *)
(* manager: when the manager is constructed it may already hold sessions   *)
(* saved by an earlier run.  The agent process never assigns the same      *)
(* session id twice.                                                       *)
(***************************************************************************)
Tasks == 1..NTask
Users == {1, 2}

\* the user_id a task passes: the first task calls for user 1, the others for
\* any user
CallerUsers(t) == IF t = 1 THEN {1} ELSE Users

\* the n-th session id the agent process assigns
AgentId(n) ==
    CASE n = 1 -> "a" [] n = 2 -> "b" [] n = 3 -> "c" [] n = 4 -> "d"
      [] OTHER -> "e"
AgentIds == {AgentId(n) : n \in 1..MaxAgent}

\* f"temp_{uuid.uuid4()}": the n-th session created gets the n-th fresh id
TempId(n) ==
    CASE n = 1 -> "temp_1" [] n = 2 -> "temp_2" [] n = 3 -> "temp_3"
      [] n = 4 -> "temp_4" [] n = 5 -> "temp_5" [] OTHER -> "temp_6"
TempIds == {TempId(n) : n \in 1..MaxObj}
Ids == TempIds \cup AgentIds

\* the ids a caller may supply: the placeholder ids up to the last one handed
\* out, the ids the agent has assigned, and one id no session ever had
MintedIds == {TempId(n) : n \in 1..nObj}
AssignedIds == {AgentId(n) : n \in 1..nAgent}
CallerIds == MintedIds \cup (AgentIds \cap {AgentId(n) : n \in 1..(nAgent + 1)})

\* session_id.startswith("temp_")
IsTemp(id) == id \in {TempId(n) : n \in 1..6}

ToolNames == {"Bash"}
ClaudeResponse(sid) ==
    [session_id |-> sid, cost |-> 1, num_turns |-> 2, tools_used |-> ToolNames]
\* the session id of a response: none, the id the process was told to resume,
\* or a newly assigned one
ResponseIds(resumed) ==
    {""} \cup ({resumed} \cap AgentIds)
         \cup (IF nAgent < MaxAgent THEN {AgentId(nAgent + 1)} ELSE {})
NoResp == [session_id |-> "", cost |-> 0, num_turns |-> 0, tools_used |-> {}]

ClaudeSession(id, user, t) ==
    [session_id |-> id, user_id |-> user, last_used |-> t, total_cost |-> 0,
     total_turns |-> 0, message_count |-> 0, tools_used |-> {},
     is_new_session |-> FALSE]
NoObject == ClaudeSession("", 0, 0)

is_expired_never(s) == FALSE
is_expired(s) == now - s.last_used > session_timeout_hours

update_usage(s, r) ==
    [s EXCEPT !.last_used = now,
              !.total_cost = @ + r.cost,
              !.total_turns = @ + r.num_turns,
              !.message_count = @ + 1,
              !.tools_used = @ \cup r.tools_used]

\* the argument list of the agent process (prompt and session_id: "" stands
\* for an empty string and for None)
_build_command_resume_given(prompt, session_id, continue_session) ==
    <<claude_binary_path>>
    \o (IF session_id /= "" THEN <<"--resume", session_id, "-p", prompt>>
        ELSE <<"-p", prompt>>)
    \o <<"--output-format", "stream-json", "--verbose",
         "--max-turns", claude_max_turns>>
    \o (IF claude_allowed_tools /= "" THEN <<"--allowedTools", claude_allowed_tools>>
        ELSE <<>>)
    \o <<"--dangerously-skip-permissions">>
_build_command(prompt, session_id, continue_session) ==
    <<claude_binary_path>>
    \o (IF continue_session /\ prompt = ""
        THEN <<"--continue">>
             \o (IF session_id /= "" THEN <<"--resume", session_id>> ELSE <<>>)
        ELSE IF session_id /= "" /\ prompt /= "" /\ continue_session
        THEN <<"--resume", session_id, "-p", prompt>>
        ELSE IF prompt /= "" THEN <<"-p", prompt>>
        ELSE <<"-p", "">>)
    \o <<"--output-format", "stream-json", "--verbose",
         "--max-turns", claude_max_turns>>
    \o (IF claude_allowed_tools /= "" THEN <<"--allowedTools", claude_allowed_tools>>
        ELSE <<>>)
    \o <<"--dangerously-skip-permissions">>

\* the value that follows a flag in an argument list ("" when the flag is absent)
HasFlag(cmd, flag) == \E i \in 1..Len(cmd) : cmd[i] = flag
FlagValue(cmd, flag) ==
    IF \E i \in 1..(Len(cmd) - 1) : cmd[i] = flag
    THEN cmd[(CHOOSE i \in 1..(Len(cmd) - 1) : cmd[i] = flag) + 1]
    ELSE ""

\* the prompt of a run_command
Prompt == "hi"

NoCmd == <<>>

\* mode, retried, outcome and accounted record the path of the call and are kept
\* after it has ended, until the task's next call.  how, age and fresh record
\* what get_or_create_session returned: where it found the session ("cache",
\* "storage", "created"), the time since its last_used, and whether it was an
\* unused placeholder.  all_sessions and expired_count are the locals of
\* cleanup_expired_sessions; expired0 are the sessions that were expired when it
\* read the storage, removed the sessions it has taken out of the cache or of
\* the storage, clean and kept what it left behind when it returned; evicted is
\* the id that get_or_create_session removed for the user session limit; nexec
\* counts the execute_command calls of the run_command, first_error is what the
\* first of them raised and retry_cmd the command line of the second;
\* old_session_id and final_session_id are the locals of run_command, the
\* latter the session_id of the response it returns
NoLoc ==
    [user_id |-> 0, session_id |-> "", session |-> 0, claude_session_id |-> "",
     response |-> NoResp, usession |-> 0, key |-> "", renamed |-> FALSE,
     mode |-> "", retried |-> FALSE, outcome |-> "none", accounted |-> FALSE,
     how |-> "", age |-> 0, fresh |-> FALSE,
     all_sessions |-> {}, expired_count |-> 0, expired0 |-> {}, removed |-> {},
     clean |-> TRUE, kept |-> TRUE, evicted |-> "",
     nexec |-> 0, first_error |-> "", retry_cmd |-> NoCmd,
     old_session_id |-> "", final_session_id |-> ""]

\* what the inner except clause of run_command catches
CaughtAll == {"ClaudeSessionError", "ClaudeTimeoutError", "ClaudeProcessError",
              "ClaudeParsingError"}
CaughtTimeout == {"ClaudeSessionError", "ClaudeTimeoutError"}
Caught == {"ClaudeSessionError"}

\* what execute_command raises
Errors == {"ClaudeSessionError", "ClaudeTimeoutError", "ClaudeProcessError",
           "ClaudeParsingError"}

\* a session that an earlier run left in storage: one turn accounted, last used
\* at time t.  The first one has expired by the time the manager is constructed,
\* the second one has not.
StoredSession(n, user, t) ==
    [ClaudeSession(AgentId(n), user, t)
        EXCEPT !.total_cost = ClaudeResponse("").cost,
               !.total_turns = ClaudeResponse("").num_turns,
               !.message_count = 1,
               !.tools_used = ToolNames]

SessInit ==
    /\ now = 0
    /\ nObj \in 0..MaxPre
    /\ nAgent = nObj
    /\ \E u2 \in Users :
          obj = [o \in 1..MaxObj |->
                    IF o > nObj THEN NoObject
                    ELSE IF o = 1 THEN StoredSession(1, 1, -1 - session_timeout_hours)
                    ELSE StoredSession(o, u2, 0)]
    /\ active_sessions = [k \in Ids |-> 0]
    /\ sessions = [k \in Ids |->
                     IF \E o \in 1..nObj : k = AgentId(o)
                     THEN CHOOSE o \in 1..nObj : k = AgentId(o) ELSE 0]
    /\ tpc = [t \in Tasks |-> "idle"]
    /\ loc = [t \in Tasks |-> NoLoc]
    /\ ncalls = 0
    /\ resume_ids = {}
    /\ rename_log = {}

\* get_session_info: the cache first, then storage (0: None)
Lookup(act, sto, id) == IF act[id] /= 0 THEN act[id] ELSE sto[id]

\* run_command from the return of get_or_create_session (session s, with
\* fields sess) to the await of execute_command
Execute(t, L, s, sess, how) ==
    LET should_continue == L.session_id /= "" /\ ~sess.is_new_session
        claude_session_id == IF sess.is_new_session THEN "" ELSE sess.session_id
        cmd == _build_command(Prompt, claude_session_id, should_continue)
    IN /\ tpc' = [tpc EXCEPT ![t] = "execute"]
       /\ loc' = [loc EXCEPT ![t] =
                     [L EXCEPT !.session = s,
                               !.claude_session_id = claude_session_id,
                               !.mode = IF sess.is_new_session THEN "first"
                                        ELSE "continued",
                               !.how = how,
                               !.nexec = 1,
                               !.age = now - sess.last_used,
                               !.fresh = /\ sess.is_new_session
                                         /\ IsTemp(sess.session_id)
                                         /\ sess.message_count = 0]]
       /\ resume_ids' = IF HasFlag(cmd, "--resume")
                        THEN resume_ids \cup {FlagValue(cmd, "--resume")}
                        ELSE resume_ids

\* run_command is called; get_or_create_session runs to its first await, or
\* returns the cached session
RunCommand(t, user, sid) ==
    /\ tpc[t] = "idle"
    /\ ncalls < MaxCalls
    /\ ncalls' = ncalls + 1
    /\ UNCHANGED nAgent
    /\ LET L == [NoLoc EXCEPT !.user_id = user, !.session_id = sid] IN
       IF sid /= "" /\ active_sessions[sid] /= 0
                    /\ ~is_expired(obj[active_sessions[sid]])
       THEN Execute(t, L, active_sessions[sid], obj[active_sessions[sid]], "cache")
       ELSE /\ tpc' = [tpc EXCEPT ![t] =
                          IF sid /= "" THEN "load_session" ELSE "get_user_sessions"]
            /\ loc' = [loc EXCEPT ![t] = L]
            /\ UNCHANGED resume_ids
    /\ UNCHANGED <<now, nObj, obj, active_sessions, sessions, rename_log>>

\* storage.load_session returns
LoadSession(t) ==
    /\ tpc[t] = "load_session"
    /\ LET L == loc[t]
           s == sessions[L.session_id]
       IN IF s /= 0 /\ ~is_expired(obj[s])
          THEN /\ active_sessions' = [active_sessions EXCEPT ![L.session_id] = s]
               /\ Execute(t, L, s, obj[s], "storage")
          ELSE /\ tpc' = [tpc EXCEPT ![t] = "get_user_sessions"]
               /\ UNCHANGED <<active_sessions, loc, resume_ids>>
    /\ UNCHANGED <<now, nObj, obj, sessions, ncalls, nAgent, rename_log>>

\* the new placeholder session is built and storage.save_session is awaited
CreateSession(t, L) ==
    /\ nObj < MaxObj
    /\ nObj' = nObj + 1
    /\ obj' = [obj EXCEPT ![nObj + 1] =
                  [ClaudeSession(TempId(nObj + 1), L.user_id, now)
                      EXCEPT !.is_new_session = TRUE]]
    /\ tpc' = [tpc EXCEPT ![t] = "create_save"]
    /\ loc' = [loc EXCEPT ![t] = [L EXCEPT !.session = nObj + 1]]

\* min(user_sessions, key=lambda s: s.last_used): the keys of the sessions
\* with the smallest last_used
oldest_any(user_keys) == user_keys
oldest(user_keys) ==
    {k \in user_keys :
        \A j \in user_keys : obj[sessions[k]].last_used <= obj[sessions[j]].last_used}

\* storage.get_user_sessions returns: the user session limit is checked
GetUserSessions(t) ==
    /\ tpc[t] = "get_user_sessions"
    /\ LET L == loc[t]
           user_keys == {k \in Ids : sessions[k] /= 0
                                     /\ obj[sessions[k]].user_id = L.user_id}
       IN IF Cardinality(user_keys) >= max_sessions_per_user
          THEN \E k \in oldest(user_keys) :
                  /\ LET oldest_id == obj[sessions[k]].session_id IN
                        \* remove_session(oldest.session_id), to its await
                        /\ active_sessions' = [active_sessions EXCEPT ![oldest_id] = 0]
                        /\ loc' = [loc EXCEPT ![t] = [L EXCEPT !.key = oldest_id]]
                        /\ tpc' = [tpc EXCEPT ![t] = "evict_delete"]
                        /\ UNCHANGED <<nObj, obj>>
          ELSE CreateSession(t, L) /\ UNCHANGED active_sessions
    /\ UNCHANGED <<now, sessions, ncalls, nAgent, resume_ids, rename_log>>

\* storage.delete_session of the evicted session returns
EvictDelete(t) ==
    /\ tpc[t] = "evict_delete"
    /\ sessions' = [sessions EXCEPT ![loc[t].key] = 0]
    /\ CreateSession(t, [loc[t] EXCEPT !.key = "", !.evicted = loc[t].key])
    /\ UNCHANGED <<now, active_sessions, ncalls, nAgent, resume_ids, rename_log>>

\* storage.save_session of the new session returns; get_or_create_session
\* caches it and returns it
CreateSave(t) ==
    /\ tpc[t] = "create_save"
    /\ LET s == loc[t].session IN
          /\ sessions' = [sessions EXCEPT ![obj[s].session_id] = s]
          /\ active_sessions' = [active_sessions EXCEPT ![obj[s].session_id] = s]
          /\ Execute(t, loc[t], s, obj[s], "created")
    /\ UNCHANGED <<now, nObj, obj, ncalls, nAgent, rename_log>>

\* run_command returns a response or raises; accounted: update_session has
\* applied update_usage to the session of this call
Return(t, L, how, accounted) ==
    /\ tpc' = [tpc EXCEPT ![t] = "idle"]
    /\ loc' = [loc EXCEPT ![t] =
                  [NoLoc EXCEPT !.mode = L.mode,
                                !.retried = L.retried,
                                !.session_id = L.session_id,
                                !.final_session_id =
                                    IF how /= "response" THEN ""
                                    ELSE IF L.response.session_id /= ""
                                    THEN L.response.session_id
                                    ELSE L.old_session_id,
                                !.nexec = L.nexec,
                                !.first_error = L.first_error,
                                !.retry_cmd = L.retry_cmd,
                                !.outcome = how,
                                !.accounted = accounted]]

\* update_session(session.session_id, response), to its first await or to
\* its return
UpdateSession(t, r) ==
    LET L == [loc[t] EXCEPT !.response = r,
                            !.old_session_id = obj[loc[t].session].session_id]
        session_id == obj[L.session].session_id
        s == active_sessions[session_id]
    IN IF s = 0
       THEN Return(t, L, "response", FALSE) /\ UNCHANGED <<obj, active_sessions>>
       ELSE IF obj[s].is_new_session /\ r.session_id /= ""
       THEN /\ active_sessions' = [active_sessions EXCEPT ![obj[s].session_id] = 0]
            /\ loc' = [loc EXCEPT ![t] = [L EXCEPT !.usession = s,
                                          !.key = obj[s].session_id]]
            /\ tpc' = [tpc EXCEPT ![t] = "rename_delete"]
            /\ UNCHANGED obj
       ELSE /\ obj' = [obj EXCEPT ![s] =
                          update_usage([@ EXCEPT !.is_new_session = FALSE], r)]
            /\ loc' = [loc EXCEPT ![t] = [L EXCEPT !.usession = s]]
            /\ tpc' = [tpc EXCEPT ![t] = "update_save"]
            /\ UNCHANGED active_sessions

\* execute_command returns a response
ExecuteReturns(t, sid) ==
    /\ tpc[t] \in {"execute", "execute_retry"}
    /\ sid \in ResponseIds(IF tpc[t] = "execute" /\ loc[t].mode = "continued"
                           THEN loc[t].claude_session_id ELSE "")
    /\ nAgent' = IF sid = AgentId(nAgent + 1) THEN nAgent + 1 ELSE nAgent
    /\ UpdateSession(t, ClaudeResponse(sid))
    /\ UNCHANGED <<now, nObj, sessions, ncalls, resume_ids, rename_log>>

\* the first execute_command raises ClaudeSessionError
ExecuteSessionError(t) ==
    /\ tpc[t] = "execute"
    /\ \E err \in Caught :
       LET id == loc[t].claude_session_id IN
       IF id /= ""
       THEN \* remove_session(claude_session_id), to its await
            /\ active_sessions' = [active_sessions EXCEPT ![id] = 0]
            /\ loc' = [loc EXCEPT ![t].key = id, ![t].retried = TRUE,
                                  ![t].first_error = err]
            /\ tpc' = [tpc EXCEPT ![t] = "retry_delete"]
       ELSE /\ tpc' = [tpc EXCEPT ![t] = "execute_retry"]
            /\ loc' = [loc EXCEPT ![t].retried = TRUE,
                                  ![t].first_error = err,
                                  ![t].nexec = @ + 1,
                                  ![t].retry_cmd = _build_command(Prompt, "", FALSE)]
            /\ UNCHANGED active_sessions
    /\ UNCHANGED <<now, nObj, obj, sessions, ncalls, nAgent, resume_ids, rename_log>>

\* storage.delete_session of the stale session returns; the retry starts
RetryDelete(t) ==
    /\ tpc[t] = "retry_delete"
    /\ sessions' = [sessions EXCEPT ![loc[t].key] = 0]
    /\ loc' = [loc EXCEPT ![t].key = "",
                          ![t].nexec = @ + 1,
                          ![t].retry_cmd = _build_command(Prompt, "", FALSE)]
    /\ tpc' = [tpc EXCEPT ![t] = "execute_retry"]
    /\ UNCHANGED <<now, nObj, obj, active_sessions, ncalls, nAgent, resume_ids, rename_log>>

\* execute_command raises and run_command re-raises: any failure of the
\* retry, any failure but ClaudeSessionError of the first attempt
ExecuteRaises(t, err) ==
    /\ tpc[t] \in {"execute", "execute_retry"}
    /\ tpc[t] = "execute" => err \notin Caught
    /\ Return(t, IF tpc[t] = "execute" THEN [loc[t] EXCEPT !.first_error = err]
                 ELSE loc[t],
              err, FALSE)
    /\ UNCHANGED <<now, nObj, obj, active_sessions, sessions, ncalls, nAgent, resume_ids,
                   rename_log>>

\* storage.delete_session of the placeholder returns; the session gets the
\* agent's id, is cached under it, and usage is accounted
RenameDelete(t) ==
    /\ tpc[t] = "rename_delete"
    /\ LET L == loc[t]
           s == L.usession
           r == L.response
       IN /\ sessions' = [sessions EXCEPT ![L.key] = 0]
          /\ obj' = [obj EXCEPT ![s] =
                        update_usage([@ EXCEPT !.session_id = r.session_id,
                                               !.is_new_session = FALSE], r)]
          /\ active_sessions' = [active_sessions EXCEPT ![r.session_id] = s]
          /\ loc' = [loc EXCEPT ![t].renamed = TRUE]
          /\ tpc' = [tpc EXCEPT ![t] = "update_save"]
    /\ UNCHANGED <<now, nObj, ncalls, nAgent, resume_ids, rename_log>>

\* storage.save_session returns; update_session and run_command return
UpdateSave(t) ==
    /\ tpc[t] = "update_save"
    /\ LET L == loc[t]
           s == L.usession
           new == obj[s].session_id
           sto == [sessions EXCEPT ![new] = s]
       IN /\ sessions' = sto
          /\ rename_log' =
                IF L.renamed
                THEN rename_log \cup
                        {[old_found |-> Lookup(active_sessions, sto, L.key) /= 0,
                          new_cached |-> active_sessions[new] = s,
                          new_stored |-> sto[new] = s,
                          usage |-> [k \in {"message_count", "total_cost",
                                            "total_turns", "tools_used"} |->
                                        obj[s][k]]]}
                ELSE rename_log
    /\ Return(t, loc[t], "response", loc[t].usession = loc[t].session)
    /\ UNCHANGED <<now, nObj, obj, active_sessions, ncalls, nAgent, resume_ids>>

\* cleanup_expired_sessions is called and awaits storage.get_all_sessions
CleanupExpiredSessions(t) ==
    /\ tpc[t] = "idle"
    /\ ncalls < MaxCalls
    /\ ncalls' = ncalls + 1
    /\ tpc' = [tpc EXCEPT ![t] = "get_all_sessions"]
    /\ loc' = [loc EXCEPT ![t] = NoLoc]
    /\ UNCHANGED <<now, nObj, obj, active_sessions, sessions, nAgent, resume_ids,
                   rename_log>>

\* the loop of cleanup_expired_sessions from one resumption to the next await:
\* the sessions of all_sessions are visited in the order of the storage (here
\* the order of creation) up to the first expired one, which remove_session
\* takes out of the cache before it awaits storage.delete_session; after the
\* last session the count is returned
CleanupLoop(t, L, sto) ==
    LET expired == {o \in L.all_sessions : is_expired(obj[o])} IN
    IF expired = {}
    THEN /\ tpc' = [tpc EXCEPT ![t] = "idle"]
         /\ loc' = [loc EXCEPT ![t] =
                [NoLoc EXCEPT
                    !.outcome = "cleaned",
                    !.expired_count = L.expired_count,
                    !.removed = L.removed,
                    !.kept = L.kept,
                    !.clean = /\ \A o \in L.expired0 :
                                    is_expired(obj[o]) =>
                                       \A k \in Ids : active_sessions[k] /= o /\ sto[k] /= o
                              /\ \A o \in L.removed : \A k \in Ids : sto[k] /= o]]
         /\ UNCHANGED active_sessions
    ELSE LET o == CHOOSE e \in expired : \A f \in expired : e <= f
             id == obj[o].session_id
             hit == {active_sessions[id], sto[id]} \ {0}
         IN /\ active_sessions' = [active_sessions EXCEPT ![id] = 0]
            /\ tpc' = [tpc EXCEPT ![t] = "cleanup_delete"]
            /\ loc' = [loc EXCEPT ![t] =
                   [L EXCEPT !.all_sessions = {e \in L.all_sessions : e > o},
                             !.key = id,
                             !.expired_count = L.expired_count + 1,
                             !.removed = L.removed \cup hit,
                             !.kept = L.kept /\ \A h \in hit : is_expired(obj[h])]]

\* storage.get_all_sessions returns
GetAllSessions(t) ==
    /\ tpc[t] = "get_all_sessions"
    /\ LET all == {o \in 1..nObj : \E k \in Ids : sessions[k] = o}
           held == {o \in 1..nObj : \E k \in Ids : active_sessions[k] = o}
       IN CleanupLoop(t, [loc[t] EXCEPT !.all_sessions = all,
                                        !.expired0 = {o \in all \cup held :
                                                         is_expired(obj[o])}],
                      sessions)
    /\ UNCHANGED <<now, nObj, obj, sessions, ncalls, nAgent, resume_ids, rename_log>>

\* storage.delete_session of an expired session returns
CleanupDelete(t) ==
    /\ tpc[t] = "cleanup_delete"
    /\ sessions' = [sessions EXCEPT ![loc[t].key] = 0]
    /\ CleanupLoop(t, [loc[t] EXCEPT !.key = ""], sessions')
    /\ UNCHANGED <<now, nObj, obj, ncalls, nAgent, resume_ids, rename_log>>

\* time passes
Tick ==
    /\ now < MaxNow
    /\ now' = now + 1
    /\ UNCHANGED <<nObj, obj, active_sessions, sessions, tpc, loc, ncalls, nAgent,
                   resume_ids, rename_log>>

SessNext ==
    \/ \E t \in Tasks : \E user \in CallerUsers(t), sid \in {""} \cup CallerIds :
          RunCommand(t, user, sid) /\ UNCHANGED <<streamVars, procVars, cmdVars, readVars, pipeVars, dictVars>>
    \/ \E t \in Tasks : LoadSession(t) /\ UNCHANGED <<streamVars, procVars, cmdVars, readVars, pipeVars, dictVars>>
    \/ \E t \in Tasks : GetUserSessions(t) /\ UNCHANGED <<streamVars, procVars, cmdVars, readVars, pipeVars, dictVars>>
    \/ \E t \in Tasks : EvictDelete(t) /\ UNCHANGED <<streamVars, procVars, cmdVars, readVars, pipeVars, dictVars>>
    \/ \E t \in Tasks : CreateSave(t) /\ UNCHANGED <<streamVars, procVars, cmdVars, readVars, pipeVars, dictVars>>
    \/ \E t \in Tasks, sid \in {""} \cup AgentIds :
          ExecuteReturns(t, sid) /\ UNCHANGED <<streamVars, procVars, cmdVars, readVars, pipeVars, dictVars>>
    \/ \E t \in Tasks : ExecuteSessionError(t) /\ UNCHANGED <<streamVars, procVars, cmdVars, readVars, pipeVars, dictVars>>
    \/ \E t \in Tasks : RetryDelete(t) /\ UNCHANGED <<streamVars, procVars, cmdVars, readVars, pipeVars, dictVars>>
    \/ \E t \in Tasks, err \in Errors :
          ExecuteRaises(t, err) /\ UNCHANGED <<streamVars, procVars, cmdVars, readVars, pipeVars, dictVars>>
    \/ \E t \in Tasks : RenameDelete(t) /\ UNCHANGED <<streamVars, procVars, cmdVars, readVars, pipeVars, dictVars>>
    \/ \E t \in Tasks : UpdateSave(t) /\ UNCHANGED <<streamVars, procVars, cmdVars, readVars, pipeVars, dictVars>>
    \/ \E t \in Tasks : CleanupExpiredSessions(t) /\ UNCHANGED <<streamVars, procVars, cmdVars, readVars, pipeVars, dictVars>>
    \/ \E t \in Tasks : GetAllSessions(t) /\ UNCHANGED <<streamVars, procVars, cmdVars, readVars, pipeVars, dictVars>>
    \/ \E t \in Tasks : CleanupDelete(t) /\ UNCHANGED <<streamVars, procVars, cmdVars, readVars, pipeVars, dictVars>>
    \/ Tick /\ UNCHANGED <<streamVars, procVars, cmdVars, readVars, pipeVars, dictVars>>

(***************************************************************************)
(* One call of _build_command on arguments drawn from small sets.          *)
(***************************************************************************)
Prompts == {"", "hi", "ls", "fix it"}
SessionIdArgs == {""} \cup Ids
NoArgs == [prompt |-> "", session_id |-> "", continue_session |-> FALSE]

CmdInit ==
    /\ config \in {ClaudeConfig(a) : a \in AllowedToolsArgs}
    /\ build_args \in [prompt : Prompts, session_id : SessionIdArgs,
                        continue_session : BOOLEAN]
    /\ command = <<>>

BuildCommand ==
    /\ command = <<>>
    /\ command' = _build_command(build_args.prompt, build_args.session_id,
                                 build_args.continue_session)
    /\ UNCHANGED <<config, build_args>>

CmdNext == BuildCommand /\ UNCHANGED <<streamVars, procVars, sessVars, readVars, pipeVars, dictVars>>

(***************************************************************************)
(* _read_stream_bounded (integration.py 452-470).                          *)
(***************************************************************************)
\* Bytes: a letter, a space, the newline, and the two bytes of the UTF-8
\* encoding of one character.
Bytes == {"a", " ", "\n", "C3", "A9"}
MaxBytes == 4
ByteStreams == UNION {[1..n -> Bytes] : n \in 0..MaxBytes}

\* self.streaming_buffer_size is 65536 in the source; the model scales it down
streaming_buffer_size == 3

Min(a, b) == IF a < b THEN a ELSE b

\* bytes.decode("utf-8", errors="replace"): the two-byte character when both
\* bytes are there, the replacement character for a byte of it alone
RECURSIVE decode(_)
decode(bs) ==
    IF bs = <<>> THEN <<>>
    ELSE IF Len(bs) >= 2 /\ bs[1] = "C3" /\ bs[2] = "A9"
    THEN <<"e-acute">> \o decode(SubSeq(bs, 3, Len(bs)))
    ELSE IF bs[1] \in {"C3", "A9"}
    THEN <<"U+FFFD">> \o decode(Tail(bs))
    ELSE <<bs[1]>> \o decode(Tail(bs))

\* str.strip(): leading and trailing whitespace removed
RECURSIVE lstrip(_)
lstrip(cs) == IF cs /= <<>> /\ Head(cs) = " " THEN lstrip(Tail(cs)) ELSE cs
RECURSIVE rstrip(_)
rstrip(cs) ==
    IF cs /= <<>> /\ cs[Len(cs)] = " " THEN rstrip(SubSeq(cs, 1, Len(cs) - 1)) ELSE cs
strip(cs) == rstrip(lstrip(cs))

\* b"\n" in buf, and buf.split(b"\n", 1)
HasNewline(buf) == \E i \in 1..Len(buf) : buf[i] = "\n"
FirstNewline(buf) ==
    CHOOSE i \in 1..Len(buf) : buf[i] = "\n" /\ \A j \in 1..(i-1) : buf[j] /= "\n"

\* the inner loop (lines 464-466): the lines it yields, the buffer it leaves
RECURSIVE CompleteLines(_)
CompleteLines(buf) ==
    IF HasNewline(buf)
    THEN <<strip(decode(SubSeq(buf, 1, FirstNewline(buf) - 1)))>>
         \o CompleteLines(SubSeq(buf, FirstNewline(buf) + 1, Len(buf)))
    ELSE <<>>
RECURSIVE AfterLines(_)
AfterLines(buf) ==
    IF HasNewline(buf) THEN AfterLines(SubSeq(buf, FirstNewline(buf) + 1, Len(buf)))
    ELSE buf

\* lines 468-470: the remaining buffer is yielded when it is not empty
\* (variant: it is dropped)
RemainderDropped(buf) == <<>>
Remainder(buf) == IF buf /= <<>> THEN <<strip(decode(buf))>> ELSE <<>>

ReadInit ==
    /\ stdout_bytes \in ByteStreams
    /\ nread = 0
    /\ buffer = <<>>
    /\ yielded = <<>>
    /\ rpc = "read"

\* stream.read(streaming_buffer_size) returns n bytes, 1 <= n <= the size;
\* the complete lines of the buffer are yielded
ReadChunk ==
    /\ rpc = "read"
    /\ nread < Len(stdout_bytes)
    /\ \E n \in 1..Min(streaming_buffer_size, Len(stdout_bytes) - nread) :
          LET chunk == SubSeq(stdout_bytes, nread + 1, nread + n)
          IN /\ nread' = nread + n
             /\ yielded' = yielded \o CompleteLines(buffer \o chunk)
             /\ buffer' = AfterLines(buffer \o chunk)
    /\ UNCHANGED <<stdout_bytes, rpc>>

\* stream.read returns b"" at end of file: the loop ends and the remaining
\* buffer is yielded
ReadEOF ==
    /\ rpc = "read"
    /\ nread = Len(stdout_bytes)
    /\ yielded' = yielded \o Remainder(buffer)
    /\ rpc' = "done"
    /\ UNCHANGED <<stdout_bytes, nread, buffer>>

ReadNext ==
    \/ ReadChunk /\ UNCHANGED <<streamVars, procVars, sessVars, cmdVars, pipeVars, dictVars>>
    \/ ReadEOF /\ UNCHANGED <<streamVars, procVars, sessVars, cmdVars, pipeVars, dictVars>>

(***************************************************************************)
(* The agent process and its pipes (integration.py, _start_process and     *)
(* _handle_process_output).  stdout and stderr are pipes.  The reader      *)
(* consumes stdout as it arrives.  Nothing reads process.stderr before the *)
(* process has exited: the event loop moves what arrives on the stderr     *)
(* pipe into the StreamReader's buffer and pauses reading once the buffer  *)
(* holds more than twice the limit given to create_subprocess_exec.  A     *)
(* write to a full pipe blocks the process.                                *)
(***************************************************************************)
\* limit=1024 * 1024 * 512 (line 300), and the size of a pipe's buffer, scaled
limit == 1
pipe_capacity == 1
MaxErr == 5

\* StreamReader.feed_data has paused the stderr transport
paused == stderr_buffer > 2 * limit

\* the subprocess transport is finished: the process has ended and the event
\* loop has seen the end of its pipes, which takes reading not to be paused
TransportFinished ==
    apc \in {"exited", "killed"} /\ stderr_pipe = 0 /\ ~paused

PipeInit ==
    /\ apc = "stderr"
    /\ stderr_todo \in 0..MaxErr
    /\ stderr_pipe = 0
    /\ stderr_buffer = 0
    /\ stdout_pipe = 0
    /\ ppc = "read"
    /\ got_result = FALSE
    /\ pipe_outcome = "none"

\* the process writes to stderr; the write blocks while the pipe is full
AgentWritesStderr ==
    /\ apc = "stderr"
    /\ stderr_todo > 0
    /\ stderr_pipe < pipe_capacity
    /\ stderr_todo' = stderr_todo - 1
    /\ stderr_pipe' = stderr_pipe + 1
    /\ UNCHANGED <<apc, stderr_buffer, stdout_pipe, ppc, got_result, pipe_outcome>>

\* the process writes its result frame to stdout
AgentWritesResult ==
    /\ apc = "stderr"
    /\ stderr_todo = 0
    /\ stdout_pipe' = stdout_pipe + 1
    /\ apc' = "exit"
    /\ UNCHANGED <<stderr_todo, stderr_pipe, stderr_buffer, ppc, got_result, pipe_outcome>>

\* the process exits with code 0
AgentExits ==
    /\ apc = "exit"
    /\ apc' = "exited"
    /\ UNCHANGED <<stderr_todo, stderr_pipe, stderr_buffer, stdout_pipe, ppc, got_result,
                   pipe_outcome>>

\* the event loop moves stderr data from the pipe into the StreamReader
feed_data ==
    /\ stderr_pipe > 0
    /\ ~paused
    /\ stderr_pipe' = stderr_pipe - 1
    /\ stderr_buffer' = stderr_buffer + 1
    /\ UNCHANGED <<apc, stderr_todo, stdout_pipe, ppc, got_result, pipe_outcome>>

\* the reader loop takes the result frame from stdout (lines 311-336)
ReadResult ==
    /\ ppc = "read"
    /\ stdout_pipe > 0
    /\ stdout_pipe' = stdout_pipe - 1
    /\ got_result' = TRUE
    /\ UNCHANGED <<apc, stderr_todo, stderr_pipe, stderr_buffer, ppc, pipe_outcome>>

\* stdout is at end of file: the reader loop ends (line 311)
StdoutEOF ==
    /\ ppc = "read"
    /\ stdout_pipe = 0
    /\ apc = "exited"
    /\ ppc' = "wait"
    /\ UNCHANGED <<apc, stderr_todo, stderr_pipe, stderr_buffer, stdout_pipe, got_result,
                   pipe_outcome>>

\* process.wait() returns 0 and the result is returned (lines 354-442); stderr
\* is not read for exit code 0
WaitReturns ==
    /\ ppc = "wait"
    /\ apc = "exited"
    /\ ppc' = "done"
    /\ pipe_outcome' = IF got_result THEN "response" ELSE "ClaudeParsingError"
    /\ UNCHANGED <<apc, stderr_todo, stderr_pipe, stderr_buffer, stdout_pipe, got_result>>

\* asyncio.TimeoutError (lines 151-165): a running process is killed
\* and its exit awaited; for a process that has exited kill() does nothing
\* or raises ProcessLookupError and wait() returns at once
PipeTimeout ==
    /\ ppc \in {"read", "wait"}
    /\ IF apc \in {"stderr", "exit"}
       THEN /\ apc' = "killed"
            /\ ppc' = "timeout_wait"
            /\ UNCHANGED pipe_outcome
       ELSE /\ ppc' = "done"
            /\ pipe_outcome' \in IF TransportFinished
                                  THEN {"ClaudeTimeoutError", "ProcessLookupError"}
                                  ELSE {"ClaudeTimeoutError"}
            /\ UNCHANGED apc
    /\ UNCHANGED <<stderr_todo, stderr_pipe, stderr_buffer, stdout_pipe, got_result>>

\* the wait() of the timeout handler returns (line 155): it began while the
\* process was running and is resumed when the transport is finished
PipeTimeoutRaise ==
    /\ ppc = "timeout_wait"
    /\ TransportFinished
    /\ ppc' = "done"
    /\ pipe_outcome' = "ClaudeTimeoutError"
    /\ UNCHANGED <<apc, stderr_todo, stderr_pipe, stderr_buffer, stdout_pipe, got_result>>

PipeNext ==
    \/ AgentWritesStderr /\ UNCHANGED <<streamVars, procVars, sessVars, cmdVars, readVars, dictVars>>
    \/ AgentWritesResult /\ UNCHANGED <<streamVars, procVars, sessVars, cmdVars, readVars, dictVars>>
    \/ AgentExits /\ UNCHANGED <<streamVars, procVars, sessVars, cmdVars, readVars, dictVars>>
    \/ feed_data /\ UNCHANGED <<streamVars, procVars, sessVars, cmdVars, readVars, dictVars>>
    \/ ReadResult /\ UNCHANGED <<streamVars, procVars, sessVars, cmdVars, readVars, dictVars>>
    \/ StdoutEOF /\ UNCHANGED <<streamVars, procVars, sessVars, cmdVars, readVars, dictVars>>
    \/ WaitReturns /\ UNCHANGED <<streamVars, procVars, sessVars, cmdVars, readVars, dictVars>>
    \/ PipeTimeout /\ UNCHANGED <<streamVars, procVars, sessVars, cmdVars, readVars, dictVars>>
    \/ PipeTimeoutRaise /\ UNCHANGED <<streamVars, procVars, sessVars, cmdVars, readVars, dictVars>>

(***************************************************************************)
(* A session saved to and loaded from durable storage: ClaudeSession.to_dict *)
(* and from_dict (session.py 64-91), as RedisSessionStorage.save_session   *)
(* and load_session use them (redis_storage.py 208, 256-257).  The JSON    *)
(* text of a dictionary of strings, numbers and lists parses back to the   *)
(* same dictionary; project_path and created_at are not modelled.          *)
(***************************************************************************)
\* datetime.isoformat() and datetime.fromisoformat() for the hours of the model
isoformat(t) ==
    CASE t = -1 -> "1999-12-31T23:00:00"
      [] t = 0 -> "2000-01-01T00:00:00"
      [] t = 1 -> "2000-01-01T01:00:00"
      [] OTHER -> "2000-01-01T02:00:00"
fromisoformat(text) == CHOOSE t \in -1..2 : isoformat(t) = text

\* ClaudeSession.to_dict (lines 64-76)
to_dict(s) ==
    [session_id |-> s.session_id,
     user_id |-> s.user_id,
     last_used |-> isoformat(s.last_used),
     total_cost |-> s.total_cost,
     total_turns |-> s.total_turns,
     message_count |-> s.message_count,
     tools_used |-> s.tools_used]

\* data.get(key, default)
get(data, key, default) == IF key \in DOMAIN data THEN data[key] ELSE default

\* ClaudeSession.from_dict (lines 78-91): is_new_session is not passed to the
\* constructor and takes the default of the dataclass field (line 43)
from_dict(data) ==
    [session_id |-> data.session_id,
     user_id |-> data.user_id,
     last_used |-> fromisoformat(data.last_used),
     total_cost |-> get(data, "total_cost", 0),
     total_turns |-> get(data, "total_turns", 0),
     message_count |-> get(data, "message_count", 0),
     tools_used |-> get(data, "tools_used", {}),
     is_new_session |-> FALSE]

\* the sessions the manager saves: placeholders that were never used, and
\* sessions with a placeholder or an agent id that have taken turns
SavedSessions ==
    {[ClaudeSession(TempId(1), u, t) EXCEPT !.is_new_session = TRUE] :
        u \in Users, t \in -1..1}
    \cup {[ClaudeSession(id, u, t) EXCEPT !.message_count = n, !.total_turns = 2 * n,
                                         !.total_cost = n, !.tools_used = tools] :
            id \in {TempId(1), AgentId(1), AgentId(2)}, u \in Users, t \in -1..1,
            n \in 0..2, tools \in {{}, ToolNames}}

NoDict == to_dict(NoObject)

DictInit ==
    /\ saved \in SavedSessions
    /\ session_data = NoDict
    /\ loaded = NoObject
    /\ dpc = "save"

\* save_session: session_data = json.dumps(session.to_dict()) is written
redis_save ==
    /\ dpc = "save"
    /\ session_data' = to_dict(saved)
    /\ dpc' = "load"
    /\ UNCHANGED <<saved, loaded>>

\* load_session: ClaudeSession.from_dict(json.loads(session_data))
redis_load ==
    /\ dpc = "load"
    /\ loaded' = from_dict(session_data)
    /\ dpc' = "done"
    /\ UNCHANGED <<saved, session_data>>

DictNext ==
    \/ redis_save /\ UNCHANGED <<streamVars, procVars, sessVars, cmdVars, readVars, pipeVars>>
    \/ redis_load /\ UNCHANGED <<streamVars, procVars, sessVars, cmdVars, readVars, pipeVars>>

Init == StreamInit /\ ProcInit /\ SessInit /\ CmdInit /\ ReadInit /\ PipeInit /\ DictInit

\* a specification starts the variables it does not move in one of their
\* initial values: no stored session, a callback that returns, no arguments,
\* the default configuration, the agent process of a conversation
DefaultConfig == ClaudeConfig("None")
NoSaved == ClaudeSession(AgentId(1), 1, 0)
StreamStart ==
    /\ nObj = 0
    /\ build_args = NoArgs
    /\ config = DefaultConfig
    /\ agent_output = CoreOutput
    /\ stdout_bytes = <<>>
    /\ stderr_todo = 0
    /\ saved = NoSaved
    /\ Init

FramesStart ==
    /\ nObj = 0
    /\ build_args = NoArgs
    /\ config = DefaultConfig
    /\ stream_callback = "returns"
    /\ agent_output = FrameOutput
    /\ stdout_bytes = <<>>
    /\ stderr_todo = 0
    /\ saved = NoSaved
    /\ Init

ExitStart ==
    /\ nObj = 0
    /\ build_args = NoArgs
    /\ config = DefaultConfig
    /\ agent_output = ExitOutput
    /\ stdout_bytes = <<>>
    /\ stderr_todo = 0
    /\ saved = NoSaved
    /\ Init

ProcStart ==
    /\ nObj = 0
    /\ stream_callback = "returns"
    /\ build_args = NoArgs
    /\ config = DefaultConfig
    /\ agent_output = CoreOutput
    /\ stdout_bytes = <<>>
    /\ stderr_todo = 0
    /\ saved = NoSaved
    /\ Init

SessStart ==
    /\ stream_callback = "returns"
    /\ build_args = NoArgs
    /\ config = DefaultConfig
    /\ agent_output = CoreOutput
    /\ stdout_bytes = <<>>
    /\ stderr_todo = 0
    /\ saved = NoSaved
    /\ Init

CmdStart ==
    /\ nObj = 0
    /\ stream_callback = "returns"
    /\ agent_output = CoreOutput
    /\ stdout_bytes = <<>>
    /\ stderr_todo = 0
    /\ saved = NoSaved
    /\ Init

ReadStart ==
    /\ nObj = 0
    /\ stream_callback = "returns"
    /\ agent_output = CoreOutput
    /\ build_args = NoArgs
    /\ config = DefaultConfig
    /\ stderr_todo = 0
    /\ saved = NoSaved
    /\ Init

PipeStart ==
    /\ nObj = 0
    /\ stream_callback = "returns"
    /\ agent_output = CoreOutput
    /\ build_args = NoArgs
    /\ config = DefaultConfig
    /\ stdout_bytes = <<>>
    /\ saved = NoSaved
    /\ Init

DictStart ==
    /\ nObj = 0
    /\ stream_callback = "returns"
    /\ agent_output = CoreOutput
    /\ build_args = NoArgs
    /\ config = DefaultConfig
    /\ stdout_bytes = <<>>
    /\ stderr_todo = 0
    /\ Init

SpecStream == StreamStart /\ [][StreamNext]_vars
SpecFrames == FramesStart /\ [][StreamNext]_vars
SpecExit == ExitStart /\ [][StreamNext]_vars
SpecProc == ProcStart /\ [][ProcNext]_vars
SpecSess == SessStart /\ [][SessNext]_vars
SpecCmd == CmdStart /\ [][CmdNext]_vars
SpecRead == ReadStart /\ [][ReadNext]_vars
SpecPipe == PipeStart /\ [][PipeNext]_vars
SpecDict == DictStart /\ [][DictNext]_vars

\* SpecProc with the scheduling the event loop provides: a spawn that was
\* awaited returns or raises, a timeout that has elapsed is delivered, and a
\* wait() whose transport is finished returns.  A process is not obliged to
\* exit, nor a child process that holds its pipes to close them.
ProcFairness ==
    \A e \in Execs :
        /\ WF_vars((StartProcess(e) \/ StartFails(e))
                      /\ UNCHANGED <<streamVars, sessVars, cmdVars, readVars, pipeVars, dictVars>>)
        /\ WF_vars(Timeout(e) /\ UNCHANGED <<streamVars, sessVars, cmdVars, readVars, pipeVars, dictVars>>)
        /\ WF_vars(TimeoutRaise(e) /\ UNCHANGED <<streamVars, sessVars, cmdVars, readVars, pipeVars, dictVars>>)
SpecProcLive == ProcStart /\ [][ProcNext]_vars /\ ProcFairness

(***************************************************************************)
(* Claims about one execution's stream (checked under SpecStream).         *)
(***************************************************************************)
Returned == hpc = "done" /\ outcome = "response"

\* the code after the loop ran to its end (no exception in the loop, no timeout)
Finished == hpc = "done" /\ outcome \notin {"TypeError", "TimeoutError"}

HasToolUse(m, id) ==
    m.type = "assistant" /\ \E k \in 1..Len(m.content) :
        IsToolUse(m.content[k]) /\ m.content[k].id = id
HasToolResult(m, id, c) ==
    m.type = "user" /\ \E k \in 1..Len(m.content) :
        IsToolResult(m.content[k]) /\ m.content[k].id = id /\ m.content[k].text = c

ToolIds == {"tu1", "tu2"}
ResultTexts == {"r1", "r2"}

\* C1: if an assistant frame holds a tool_use block with identifier id and a
\* later user frame holds a tool_result block for id with content c, the
\* tools_used entry for id in the returned ClaudeResponse has result c,
\* however many valid frames arrive in between.
C1_ResultPopulated ==
    Returned =>
        \A i, j \in 1..Len(frames) : \A id \in ToolIds, c \in ResultTexts :
            (i < j /\ HasToolUse(frames[i], id) /\ HasToolResult(frames[j], id, c))
            => \E k \in 1..Len(response.tools_used) :
                  /\ response.tools_used[k].id = id
                  /\ response.tools_used[k].has_result
                  /\ response.tools_used[k].result = c

\* C2: every tool_use block of every assistant frame of the execution yields
\* exactly one entry of ClaudeResponse.tools_used, in stream order, also when
\* its frame has left the bounded message deque.
EntryKey(e) == <<e.name, e.id>>
C2_EveryToolUseEmitted ==
    Returned =>
        [k \in 1..Len(response.tools_used) |-> EntryKey(response.tools_used[k])]
        = [k \in 1..Len(ToolUseBlocks(frames)) |-> EntryKey(ToolUseBlocks(frames)[k])]

\* C4 as stated: an execution whose stream closes without a result frame fails
\* with ClaudeParsingError for every exit code.
C4_AlwaysParsingError ==
    (Finished /\ result = NoFrame) => outcome = "ClaudeParsingError"

\* C4 as amended: an execution whose stream closes without a result frame
\* never returns a ClaudeResponse, whole or partial; once the exit code is
\* read it raises ClaudeParsingError for exit code 0 and the process or
\* session failure selected by stderr for a non-zero exit code.
C4_NoResultNeverReturns ==
    (hpc = "done" /\ result = NoFrame) =>
        /\ outcome /= "response"
        /\ response = NoResponse
        /\ Finished =>
              /\ return_code = 0 => outcome = "ClaudeParsingError"
              /\ return_code /= 0 =>
                    outcome \in {"ClaudeProcessError", "ClaudeSessionError"}

C4_Witness ==
    /\ Finished
    /\ result = NoFrame
    /\ Len(frames) >= 2
    /\ return_code = 0
    /\ outcome = "ClaudeParsingError"

(***************************************************************************)
(* Claims about the process registry (checked under SpecProc).             *)
(***************************************************************************)
\* C5: once execute_command has returned or raised, on success, on timeout
\* and on any other exception, its process id is not in active_processes.
C5_RegistryCleaned ==
    \A e \in Execs : xpc[e] = "done" => e \notin active_processes

C5_Witness ==
    /\ \E e \in Execs : xpc[e] = "done" /\ xoutcome[e] = "ClaudeTimeoutError"
    /\ \E e \in Execs : xpc[e] = "done" /\ xoutcome[e] \in {"response", "ClaudeProcessError"}
    /\ kpc = "idle"

\* C6: an execution that exceeded the timeout has its process killed and the
\* exit awaited before its registry entry goes, and then raises
\* ClaudeTimeoutError; it never returns a ClaudeResponse.
C6_TimeoutRaisesTimeoutError ==
    \A e \in Execs :
        (timed_out[e] /\ xpc[e] = "done") =>
            /\ xoutcome[e] = "ClaudeTimeoutError"
            /\ proc[e] = "exited"

\* C7: kill_all_processes attempts to kill every process in the registry, a
\* failed kill does not stop the others, and the registry is empty when it
\* returns, whatever executions register or deregister while it is suspended.
C7_KillAllKillsAll ==
    kpc \in {"returned", "raised"} => (kpc = "returned" /\ k_end = {})


(***************************************************************************)
(* Claims about the session manager (checked under SpecSess).              *)
(***************************************************************************)
\* the sessions the manager holds, in the cache or in storage
Held == {o \in 1..nObj : \E k \in Ids : active_sessions[k] = o \/ sessions[k] = o}

\* C3: a session whose id is still the placeholder is marked is_new_session,
\* and no placeholder id is ever passed to the agent process as the --resume id
C3_PlaceholderIsNew ==
    /\ \A o \in Held : IsTemp(obj[o].session_id) => obj[o].is_new_session
    /\ \A id \in resume_ids : ~IsTemp(id)

\* C8: when update_session returns from renaming p to a, a lookup by p finds
\* nothing (cache, then storage), and a lookup by a gives the session, in the
\* cache and in storage, with the usage of every execution accounted on it
C8_RenameAtomic ==
    \A e \in rename_log :
        /\ ~e.old_found
        /\ e.new_cached
        /\ e.new_stored
        /\ e.usage["message_count"] >= 1
        /\ e.usage["total_cost"] = e.usage["message_count"] * ClaudeResponse("").cost
        /\ e.usage["total_turns"] =
              e.usage["message_count"] * ClaudeResponse("").num_turns
        /\ ToolNames \subseteq e.usage["tools_used"]

\* C9: no state in which one session is found both by its placeholder id and
\* by an agent-assigned id, in the cache or in storage
C9_SingleId ==
    \A o \in 1..nObj, a \in AgentIds :
        ~ /\ Lookup(active_sessions, sessions, TempId(o)) = o
          /\ Lookup(active_sessions, sessions, a) = o

\* C10: once update_usage has changed the counters of a session that is being
\* renamed, storage holds the session under its new id
C10_StoredBeforeAccounting ==
    \A t \in Tasks :
        (tpc[t] = "update_save" /\ loc[t].renamed)
            => sessions[obj[loc[t].usession].session_id] = loc[t].usession

\* C11: every run_command that returned a ClaudeResponse has had that response
\* accounted on its session by update_usage, whether it was a first turn, a
\* continued turn or a fresh retry, and whatever other tasks did meanwhile
C11_EveryResponseAccounted ==
    \A t \in Tasks : loc[t].outcome = "response" => loc[t].accounted

\* C12: get_or_create_session never returns a session found in the cache or in
\* storage whose time since last_used exceeds session_timeout_hours; what it
\* returns otherwise, for an expired or unknown id, is a newly created
\* placeholder session
C12_NeverReturnsExpired ==
    \A t \in Tasks :
        /\ loc[t].how \in {"cache", "storage"} =>
              /\ loc[t].age <= session_timeout_hours
              /\ loc[t].session_id /= ""
        /\ loc[t].how = "created" => loc[t].fresh

\* a call that named an expired stored session has been given a new placeholder
C12_Witness ==
    \E t \in Tasks :
        /\ loc[t].how = "created"
        /\ loc[t].session_id /= ""
        /\ sessions[loc[t].session_id] /= 0
        /\ now - obj[sessions[loc[t].session_id]].last_used > session_timeout_hours
        /\ obj[loc[t].session].session_id /= loc[t].session_id

\* C13: when cleanup_expired_sessions returns, every session that was expired
\* when it read the storage and still is has left the storage and the cache,
\* the number returned is the number of sessions it removed, every session it
\* removed was expired, and storage (what get_user_sessions and
\* get_all_sessions list) holds none of the removed sessions
C13_CleanupRemovesExpired ==
    \A t \in Tasks :
        loc[t].outcome = "cleaned" =>
            /\ loc[t].clean
            /\ loc[t].expired_count = Cardinality(loc[t].removed)
            /\ loc[t].kept

\* the keys under which storage holds a session of the user
StoredOf(user) == {k \in Ids : sessions[k] /= 0 /\ obj[sessions[k]].user_id = user}

\* C14: when get_or_create_session has read the user's stored sessions and they
\* are max_sessions_per_user or more, it removes one session before it creates
\* the placeholder, a session of that user with the smallest last_used: its
\* steps up to the creation take that one id out of the cache and out of storage
\* and change no other entry; below the limit it removes nothing
C14_EvictsOldestOnly ==
    [][\A t \in Tasks :
          /\ tpc[t] = "get_user_sessions" /\ tpc'[t] /= "get_user_sessions" =>
                IF Cardinality(StoredOf(loc[t].user_id)) >= max_sessions_per_user
                THEN /\ tpc'[t] = "evict_delete"
                     /\ nObj' = nObj
                     /\ sessions' = sessions
                     /\ \E k \in StoredOf(loc[t].user_id) :
                           /\ loc'[t].key = obj[sessions[k]].session_id
                           /\ \A j \in StoredOf(loc[t].user_id) :
                                 obj[sessions[k]].last_used <= obj[sessions[j]].last_used
                     /\ \A k \in Ids \ {loc'[t].key} :
                           active_sessions'[k] = active_sessions[k]
                     /\ active_sessions'[loc'[t].key] = 0
                ELSE /\ tpc'[t] = "create_save"
                     /\ sessions' = sessions
                     /\ active_sessions' = active_sessions
          /\ tpc[t] = "evict_delete" /\ tpc'[t] /= "evict_delete" =>
                /\ tpc'[t] = "create_save"
                /\ nObj' = nObj + 1
                /\ active_sessions' = active_sessions
                /\ sessions'[loc[t].key] = 0
                /\ \A k \in Ids \ {loc[t].key} : sessions'[k] = sessions[k]
     ]_vars

\* a session was created for a user at the limit after the older of the user's
\* two sessions was removed and the newer one kept
C14_Witness ==
    \E t \in Tasks :
        /\ tpc[t] = "execute"
        /\ loc[t].how = "created"
        /\ loc[t].evicted /= ""
        /\ sessions[loc[t].evicted] = 0
        /\ active_sessions[loc[t].evicted] = 0
        /\ \E k \in StoredOf(loc[t].user_id) :
              obj[sessions[k]].last_used < obj[loc[t].session].last_used

\* C15: a run_command retries only after its first execute_command raised
\* ClaudeSessionError, and then once, with a command line that has the prompt
\* and neither --resume nor --continue; what the retry raises, and any other
\* failure of the first execution, is what run_command raises; no run_command
\* starts more than two executions.  Before the retry the id that was resumed
\* is taken out of the cache and out of storage
C15_RetryOnceFresh ==
    /\ [](\A t \in Tasks :
            /\ loc[t].nexec <= 2
            /\ loc[t].retried <=> loc[t].first_error = "ClaudeSessionError"
            /\ loc[t].outcome \in Errors \cup {"response"} =>
                  loc[t].nexec = (IF loc[t].retried THEN 2 ELSE 1)
            /\ tpc[t] = "execute_retry" => loc[t].nexec = 2
            /\ loc[t].nexec = 2 =>
                  /\ ~HasFlag(loc[t].retry_cmd, "--resume")
                  /\ ~HasFlag(loc[t].retry_cmd, "--continue")
                  /\ FlagValue(loc[t].retry_cmd, "-p") = Prompt
            /\ loc[t].outcome \in Errors /\ ~loc[t].retried =>
                  loc[t].outcome = loc[t].first_error)
    /\ [][\A t \in Tasks :
            /\ tpc[t] = "execute" /\ tpc'[t] \in {"retry_delete", "execute_retry"} =>
                  LET id == loc[t].claude_session_id IN
                  IF id = "" THEN tpc'[t] = "execute_retry"
                  ELSE /\ tpc'[t] = "retry_delete"
                       /\ active_sessions'[id] = 0
            /\ tpc[t] = "retry_delete" /\ tpc'[t] /= "retry_delete" =>
                  /\ tpc'[t] = "execute_retry"
                  /\ sessions'[loc[t].claude_session_id] = 0
       ]_vars

\* a continued turn was retried after ClaudeSessionError, the retry raised
\* ClaudeSessionError again and run_command raised it after two executions
C15_Witness ==
    \E t \in Tasks :
        /\ loc[t].mode = "continued"
        /\ loc[t].retried
        /\ loc[t].outcome = "ClaudeSessionError"
        /\ loc[t].nexec = 2

\* a run_command without session_id has returned a response with session id s
ChatReturned(s) ==
    \E t \in Tasks :
        /\ tpc[t] = "idle"
        /\ loc[t].outcome = "response"
        /\ loc[t].session_id = ""
        /\ loc[t].final_session_id = s

\* C16: a run_command that supplies the id s returned by a run_command without
\* session_id, finds the session and is not retried, executes with --resume s
\* and returns a response whose session_id is s
C16_SecondChatSameId ==
    \A u \in Tasks :
        /\ loc[u].session_id /= ""
        /\ ChatReturned(loc[u].session_id)
        /\ loc[u].mode = "continued"
        /\ ~loc[u].retried
        => /\ tpc[u] = "execute" =>
                 /\ loc[u].claude_session_id = loc[u].session_id
                 /\ loc[u].session_id \in resume_ids
           /\ loc[u].outcome = "response" =>
                 loc[u].final_session_id = loc[u].session_id

\* the updates of a sequence of frames, in order
UpdatesOf(fs) ==
    SelectSeq([i \in 1..Len(fs) |-> _parse_stream_message(fs[i])],
              LAMBDA u : u /= NoUpdate)

\* the last frame of type result, and the frames a deque of max_message_buffer
\* entries retains
LastResult(fs) ==
    IF \E i \in 1..Len(fs) : fs[i].type = "result"
    THEN fs[CHOOSE i \in 1..Len(fs) :
                /\ fs[i].type = "result"
                /\ \A j \in (i+1)..Len(fs) : fs[j].type /= "result"]
    ELSE NoFrame
Retained(fs) ==
    IF Len(fs) <= max_message_buffer THEN fs
    ELSE SubSeq(fs, Len(fs) - max_message_buffer + 1, Len(fs))

\* C17: whatever the stream callback does when it is called (return, raise,
\* return a value that cannot be awaited), the update of every frame read is
\* offered to it in order, the reader loop is left early only by a line that is
\* not a validated frame or by the timeout, and what the execution returns or
\* raises is determined by the frames, the exit code and stderr alone
C17_CallbackFailureIgnored ==
    /\ [](updates = UpdatesOf(frames))
    /\ [][hpc = "read" /\ hpc' = "done" /\ outcome' /= "TimeoutError"
             => frames' = frames]_vars
    /\ [](hpc = "done" /\ outcome \notin {"TypeError", "TimeoutError"} =>
             outcome = FinishOutcome(return_code, error_msg, LastResult(frames),
                                     Retained(frames)))

\* a plain function as callback: two updates were offered, each call failed,
\* and the execution returned its response
C17_Witness ==
    /\ stream_callback = "not_awaitable"
    /\ Len(updates) >= 2
    /\ hpc = "done"
    /\ outcome = "response"

\* the frames among the lines read: the JSON objects, in order
ValidFrames(ls) ==
    LET objs == SelectSeq(ls, LAMBDA l : l.kind = "object")
    IN [i \in 1..Len(objs) |-> objs[i].msg]

\* C18: a line that json.loads rejects changes nothing: the updates offered to
\* the callback are those of the valid frames read before and after it, in
\* stream order, the message buffer retains valid frames only, and the reader
\* loop is never left because of such a line
C18_GarbledLineSkipped ==
    /\ frames = ValidFrames(lines)
    /\ updates = UpdatesOf(ValidFrames(lines))
    /\ message_buffer = Retained(ValidFrames(lines))
    /\ hpc = "done" /\ outcome = "TypeError" => lines[Len(lines)].kind = "scalar"
    /\ hpc = "done" /\ outcome \notin {"TypeError", "TimeoutError"} =>
          outcome = FinishOutcome(return_code, error_msg,
                                  LastResult(ValidFrames(lines)),
                                  Retained(ValidFrames(lines)))

\* a garbled line between two frames that yield updates, in an execution that
\* returned its response
C18_Witness ==
    /\ hpc = "done"
    /\ outcome = "response"
    /\ \E i, j, k \in 1..Len(lines) :
          /\ i < j /\ j < k
          /\ lines[i].kind = "object" /\ _parse_stream_message(lines[i].msg) /= NoUpdate
          /\ lines[j].kind = "garbled"
          /\ lines[k].kind = "object" /\ _parse_stream_message(lines[k].msg) /= NoUpdate
    /\ Len(updates) = 2

\* frame m has a tool_use block named Task with identifier id
HasTaskUse(m, id) ==
    m.type = "assistant" /\ \E k \in 1..Len(m.content) :
        IsToolUse(m.content[k]) /\ m.content[k].name = "Task" /\ m.content[k].id = id

\* C19: in an execution that returned, a Task tool_use with identifier id that
\* no tool_result block of any frame refers to, and whose assistant frame is
\* immediately followed by an assistant frame with a text block, has an entry
\* in tools_used, and its entries carry as result the first text block of that
\* following frame
C19_TaskSummaryFallback ==
    Returned =>
        \A i \in 1..(Len(frames) - 1) : \A id \in ToolIds :
            (/\ HasTaskUse(frames[i], id)
             /\ \A j \in 1..Len(frames) : \A c \in ResultTexts :
                   ~HasToolResult(frames[j], id, c)
             /\ frames[i+1].type = "assistant"
             /\ SelectSeq(frames[i+1].content, IsText) /= <<>>)
            => /\ \E k \in 1..Len(response.tools_used) : response.tools_used[k].id = id
               /\ \A k \in 1..Len(response.tools_used) :
                     response.tools_used[k].id = id =>
                        /\ response.tools_used[k].has_result
                        /\ response.tools_used[k].result =
                              Head(SelectSeq(frames[i+1].content, IsText)).text

\* some tool_result block of the execution refers to id
HasExplicitResult(id) ==
    \E j \in 1..Len(frames) : \E c \in ResultTexts : HasToolResult(frames[j], id, c)

\* C28: in an execution that returned, a Task tool_use with identifier id
\* that has both an explicit tool_result and a following assistant text frame
\* is emitted with the content of the explicit tool_result; the text of a
\* following frame is the result only when no tool_result refers to id; and a
\* tool_use of another tool that no tool_result refers to is emitted without
\* a result
C28_ExplicitResultFirst ==
    Returned =>
        \A id \in ToolIds :
            /\ \A i \in 1..(Len(frames) - 1) : \A c \in ResultTexts :
                  (/\ HasTaskUse(frames[i], id)
                   /\ frames[i+1].type = "assistant"
                   /\ SelectSeq(frames[i+1].content, IsText) /= <<>>
                   /\ \E j \in 1..Len(frames) : HasToolResult(frames[j], id, c))
                  => /\ \E k \in 1..Len(response.tools_used) :
                           response.tools_used[k].id = id
                     /\ \A k \in 1..Len(response.tools_used) :
                           response.tools_used[k].id = id =>
                              /\ response.tools_used[k].has_result
                              /\ response.tools_used[k].result = c
            /\ \A k \in 1..Len(response.tools_used) :
                  (/\ response.tools_used[k].id = id
                   /\ response.tools_used[k].has_result
                   /\ response.tools_used[k].result \notin ResultTexts)
                  => ~HasExplicitResult(id)
            /\ \A i \in 1..Len(frames) :
                  (/\ HasToolUse(frames[i], id)
                   /\ ~HasTaskUse(frames[i], id)
                   /\ ~HasExplicitResult(id))
                  => /\ \E k \in 1..Len(response.tools_used) :
                           response.tools_used[k].id = id
                     /\ \A k \in 1..Len(response.tools_used) :
                           response.tools_used[k].id = id =>
                              ~response.tools_used[k].has_result

\* what follows the binary and precedes --output-format in the command
Selection(cmd) ==
    SubSeq(cmd, 2, (CHOOSE i \in 1..Len(cmd) : cmd[i] = "--output-format") - 1)

\* C20: the command _build_command returns is selected by its arguments:
\* without continuation it has -p prompt only; with continuation and an empty
\* prompt it has --continue, followed by --resume id when an id is given; with
\* continuation, an id and a prompt it has --resume id -p prompt; and it has
\* --resume only when continuation was requested
C20_CommandSelection ==
    command /= <<>> =>
        LET a == build_args
            sel == Selection(command)
        IN /\ ~a.continue_session => sel = <<"-p", a.prompt>>
           /\ a.continue_session /\ a.prompt = "" =>
                 sel = IF a.session_id /= ""
                       THEN <<"--continue", "--resume", a.session_id>>
                       ELSE <<"--continue">>
           /\ a.continue_session /\ a.session_id /= "" /\ a.prompt /= "" =>
                 sel = <<"--resume", a.session_id, "-p", a.prompt>>
           /\ HasFlag(sel, "--resume") => a.continue_session
           /\ \A i \in 1..Len(sel) :
                 sel[i] = a.session_id /\ a.session_id /= "" => a.continue_session

\* a command was built for a session id and a prompt without continuation
C20_Witness ==
    /\ command /= <<>>
    /\ build_args.session_id /= ""
    /\ build_args.prompt /= ""
    /\ ~build_args.continue_session
    /\ Selection(command) = <<"-p", build_args.prompt>>

\* C21: every command _build_command returns, for every configuration and
\* every invocation mode, carries --output-format stream-json, --verbose,
\* --max-turns with the configured cap, --allowedTools with the configured
\* allow-list, and --dangerously-skip-permissions
C21_AlwaysAppended ==
    command /= <<>> =>
        /\ FlagValue(command, "--output-format") = "stream-json"
        /\ HasFlag(command, "--verbose")
        /\ FlagValue(command, "--max-turns") = claude_max_turns
        /\ HasFlag(command, "--allowedTools")
        /\ FlagValue(command, "--allowedTools") = config.claude_allowed_tools
        /\ HasFlag(command, "--dangerously-skip-permissions")

\* C22: for a non-zero exit code the failure is a function of the stderr text,
\* matched case-insensitively in this order: an authentication phrase gives
\* ClaudeProcessError with the credential-setup message; otherwise a session
\* phrase gives ClaudeSessionError; otherwise 'usage limit reached' gives
\* ClaudeProcessError with the parsed reset time; otherwise ClaudeProcessError
\* with the exit code and the raw stderr
C22_ExitClassification ==
    (hpc = "done" /\ return_code /= 0 /\ outcome /= "TimeoutError") =>
        LET auth == Contains(error_msg, "Not Authenticated")
            sess == Contains(error_msg, "could not resume")
            usage == Contains(error_msg, "Usage Limit Reached")
        IN /\ outcome = failure.type
           /\ auth => /\ failure.type = "ClaudeProcessError"
                      /\ failure.message = "Claude Authentication Required"
           /\ ~auth /\ sess => failure.type = "ClaudeSessionError"
           /\ ~auth /\ ~sess /\ usage =>
                 /\ failure.type = "ClaudeProcessError"
                 /\ failure.message = "Claude AI Usage Limit Reached"
                 /\ failure.reset_time =
                       IF Contains(error_msg, "reset at 3pm") THEN "3pm" ELSE "later"
           /\ ~auth /\ ~sess /\ ~usage =>
                 /\ failure.type = "ClaudeProcessError"
                 /\ failure.message = "Claude Code exited with code"
                 /\ failure.code = return_code
                 /\ failure.stderr = error_msg

\* a process whose stderr has an authentication phrase in mixed case after a
\* session phrase exited with a non-zero code
C22_Witness ==
    /\ hpc = "done"
    /\ return_code /= 0
    /\ error_msg = <<"could not resume", "Not Authenticated">>
    /\ failure.type = "ClaudeProcessError"

\* C23: when an execution inside run_command fails with ClaudeTimeoutError,
\* run_command raises it and the step leaves every session untouched: the
\* fields of the session objects (identifier, placeholder flag, last_used,
\* total_cost, total_turns, message_count, tools_used), the active cache
\* and the storage are what they were while the execution was running
C23_TimeoutLeavesSession ==
    [][\A t \in Tasks :
          (/\ tpc[t] \in {"execute", "execute_retry"}
           /\ tpc'[t] /= tpc[t]
           /\ \/ loc'[t].outcome = "ClaudeTimeoutError"
              \/ tpc[t] = "execute" /\ loc'[t].first_error = "ClaudeTimeoutError")
          => /\ loc'[t].outcome = "ClaudeTimeoutError"
             /\ tpc'[t] = "idle"
             /\ obj' = obj
             /\ active_sessions' = active_sessions
             /\ sessions' = sessions
    ]_vars

\* a continued turn failed with ClaudeTimeoutError in its only execution and
\* its session, which has been used before, is in the cache and in storage
C23_Witness ==
    \E t \in Tasks :
        /\ tpc[t] = "idle"
        /\ loc[t].outcome = "ClaudeTimeoutError"
        /\ loc[t].mode = "continued"
        /\ loc[t].nexec = 1
        /\ loc[t].session_id /= ""
        /\ active_sessions[loc[t].session_id] /= 0
        /\ sessions[loc[t].session_id] /= 0
        /\ obj[active_sessions[loc[t].session_id]].message_count > 0

\* C24: operations on the active-session cache are mutually exclusive across
\* tasks: while the rename of one task's update_session is in progress
\* (suspended between removing the old key and inserting the new one), no
\* other task's insert, remove or rename on the cache takes effect
C24_CacheMutualExclusion ==
    [][\A t \in Tasks :
          (tpc[t] = "rename_delete" /\ tpc'[t] = "rename_delete")
          => active_sessions' = active_sessions
    ]_vars

(***************************************************************************)
(* Claims about frames of every type and shape (checked under SpecFrames). *)
(***************************************************************************)
\* a line that is a well-formed frame: a JSON object with a type field whose
\* body has the shape its type requires
WellFormed(l) ==
    /\ l.kind = "object"
    /\ l.msg.type /= ""
    /\ l.msg.type = "tool_result" => l.msg.shape = "dict"
WellFormedFrames(ls) ==
    LET objs == SelectSeq(ls, WellFormed)
    IN [i \in 1..Len(objs) |-> objs[i].msg]

\* C25: a line that parses as JSON but is structurally invalid (an object
\* without a type field, a JSON value that is not an object, a tool_result
\* frame whose result is not an object) is rejected like a garbled line: the
\* frames, updates and message buffer are those of the well-formed frames,
\* the execution is never aborted by it, and what it returns or raises is
\* determined by the well-formed frames and the exit code
C25_InvalidStructureSkipped ==
    LET fs == WellFormedFrames(lines)
    IN /\ frames = fs
       /\ updates = UpdatesOf(fs)
       /\ message_buffer = Retained(fs)
       /\ hpc = "done" /\ outcome /= "TimeoutError" =>
             outcome = FinishOutcome(return_code, error_msg, LastResult(fs), Retained(fs))

\* C26: a user frame is accepted in both content shapes: for a list the
\* update's content is the text segments only, for a plain string the string
\* itself; and an execution whose lines are all well-formed frames, a user
\* frame among them, returns a ClaudeResponse once the result frame has
\* arrived and the exit code is 0
C26_UserFrameBothShapes ==
    /\ \A i \in 1..Len(updates) :
          updates[i].type = "user" =>
             \E j \in 1..Len(frames) :
                /\ frames[j].type = "user"
                /\ updates[i].text =
                      IF frames[j].shape = "str" THEN <<frames[j].raw>>
                      ELSE TextsOf(frames[j])
    /\ (/\ hpc = "done"
        /\ outcome /= "TimeoutError"
        /\ return_code = 0
        /\ \A i \in 1..Len(lines) : WellFormed(lines[i])
        /\ \E i \in 1..Len(lines) : lines[i].msg.type = "user"
        /\ \E i \in 1..Len(lines) : lines[i].msg.type = "result")
       => outcome = "response"

\* the frame types for which _parse_stream_message yields an update
YieldingTypes == {"assistant", "user", "system", "tool_result", "error", "progress"}

\* C27: each frame yields at most one update: a frame of type assistant,
\* user, system, tool_result, error or progress yields one update of its own
\* type; a result frame and a frame of any other type yield none. The
\* updates reach the callback in frame order, and the result frame is never
\* offered to the callback but is kept as the terminal frame
C27_OneUpdatePerFrame ==
    LET fs == WellFormedFrames(lines)
        yielding == SelectSeq(fs, LAMBDA m : m.type \in YieldingTypes)
    IN /\ Len(updates) = Len(yielding)
       /\ \A i \in 1..Len(updates) : updates[i].type = yielding[i].type
       /\ \A i \in 1..Len(updates) : updates[i].type /= "result"
       /\ result = LastResult(fs)

\* an execution returned its response after a tool_result, an error and a
\* progress frame and the result frame: three updates in that order
C27_Witness ==
    /\ hpc = "done"
    /\ outcome = "response"
    /\ lines = <<Line("object", ToolResDict), Line("object", ErrorFrame),
                 Line("object", ProgressFrame), Line("object", ResultFrame)>>
    /\ Len(updates) = 3
    /\ updates[1].type = "tool_result"
    /\ updates[3].type = "progress"
    /\ result = ResultFrame

(***************************************************************************)
(* Claims about the line reader (checked under SpecRead).                  *)
(***************************************************************************)
\* the lines of a byte stream: what precedes each newline, then what follows
\* the last one when it is not empty, each decoded and stripped
LinesOfStream(bs) ==
    LET nl == {i \in 1..Len(bs) : bs[i] = "\n"}
        start(i) == IF \E j \in nl : j < i
                    THEN (CHOOSE j \in nl : j < i /\ \A k \in nl : k < i => k <= j) + 1
                    ELSE 1
        ends == SelectSeq([i \in 1..Len(bs) |-> i], LAMBDA i : i \in nl)
        terminated == [k \in 1..Len(ends) |->
                          strip(decode(SubSeq(bs, start(ends[k]), ends[k] - 1)))]
        last == start(Len(bs) + 1)
    IN terminated \o (IF last <= Len(bs)
                      THEN <<strip(decode(SubSeq(bs, last, Len(bs))))>>
                      ELSE <<>>)

\* C29: however the byte stream is split into read chunks, the reader yields
\* the same lines: every newline-terminated line once and in order, then the
\* unterminated remainder when it is not empty; and after the lines of a
\* read have been yielded the retained buffer holds no newline
C29_ChunkingInvariant ==
    /\ ~HasNewline(buffer)
    /\ LET read == SubSeq(stdout_bytes, 1, nread)
           rest == IF buffer /= <<>> THEN <<strip(decode(buffer))>> ELSE <<>>
       IN /\ rpc = "read" => yielded \o rest = LinesOfStream(read)
          /\ rpc = "done" => nread = Len(stdout_bytes) /\ yielded = LinesOfStream(stdout_bytes)

\* a stream with a line, a two-byte character split between two reads and no
\* final newline has been read to its end
C29_Witness ==
    /\ rpc = "done"
    /\ stdout_bytes = <<"a", "\n", "C3", "A9">>
    /\ yielded = <<<<"a">>, <<"e-acute">>>>

\* the texts of the text blocks of a content list, and name and id of its
\* tool_use blocks, in block order
RECURSIVE TextSegments(_)
TextSegments(blocks) ==
    IF blocks = <<>> THEN <<>>
    ELSE (IF Head(blocks).btype = "text" THEN <<Head(blocks).text>> ELSE <<>>)
         \o TextSegments(Tail(blocks))
RECURSIVE ToolCalls(_)
ToolCalls(blocks) ==
    IF blocks = <<>> THEN <<>>
    ELSE (IF Head(blocks).btype = "tool_use"
          THEN <<[name |-> Head(blocks).name, id |-> Head(blocks).id]>> ELSE <<>>)
         \o ToolCalls(Tail(blocks))

\* C30: the update of an assistant frame has type assistant, as content the
\* texts of all its text blocks in their order, and as tool calls all its
\* tool_use blocks (name and id) in their order; a frame with the single text
\* block 'hi' yields content 'hi' and no tool calls
C30_AssistantUpdate ==
    LET yielding == SelectSeq(WellFormedFrames(lines),
                              LAMBDA m : m.type \in YieldingTypes)
    IN \A k \in 1..Len(updates) :
          /\ k <= Len(yielding)
          /\ yielding[k].type = "assistant" =>
                /\ updates[k].type = "assistant"
                /\ updates[k].text = TextSegments(yielding[k].content)
                /\ updates[k].tool_calls = ToolCalls(yielding[k].content)
          /\ yielding[k] = AsstHi =>
                updates[k] = [type |-> "assistant", text |-> <<"hi">>, tool_calls |-> <<>>]

\* the frame with two text blocks around a tool_use block and the frame with
\* the single text block 'hi' have been read
C30_Witness ==
    /\ Len(lines) >= 2
    /\ lines[1] = Line("object", AsstMixed)
    /\ lines[2] = Line("object", AsstHi)
    /\ Len(updates) >= 2
    /\ updates[1].text = <<"a", "b">>
    /\ Len(updates[1].tool_calls) = 2
    /\ updates[2].text = <<"hi">>

(***************************************************************************)
(* Claims about termination and the registry (checked under SpecProcLive   *)
(* and SpecProc).                                                          *)
(***************************************************************************)
\* C31: every execute_command call terminates: given that the spawn returns
\* and a killed process exits, the call returns a ClaudeResponse or raises;
\* it waits forever neither on process output, nor on process exit, nor on
\* the stream callback.
C31_Terminates ==
    \A e \in Execs : <>(xpc[e] = "done" /\ xoutcome[e] /= "none")

\* C34: every agent process that has been started and has not yet exited is
\* in active_processes, where kill_all_processes can reach it: a registry
\* entry is removed only after its process has exited or been killed, on
\* every exit path of execute_command.
C34_RunningIsRegistered ==
    \A e \in Execs : proc[e] = "running" => e \in active_processes

C37_NoDeadlock ==
    ~(/\ apc = "stderr" /\ stderr_todo > 0
      /\ stderr_pipe = pipe_capacity /\ paused
      /\ ppc = "read")

(***************************************************************************)
(* Claims about the session quota, ownership and identity (checked under   *)
(* SpecSess).                                                              *)
(***************************************************************************)
\* the keys under which durable storage holds a session of the user
StoredKeys(user) ==
    {k \in Ids : sessions[k] /= 0 /\ obj[sessions[k]].user_id = user}

\* C32: whatever session-manager calls have run, concurrent
\* get_or_create_session calls for one user included, the number of sessions
\* stored for a user never exceeds max_sessions_per_user.
C32_QuotaHolds ==
    \A user \in Users : Cardinality(StoredKeys(user)) <= max_sessions_per_user

\* C33: when run_command returns a ClaudeResponse, get_session_info finds a
\* session under response.session_id and this execution was accounted to
\* it, on first turns, on continued turns and on turns retried after a
\* ClaudeSessionError, whatever session id the agent reported.
C33_ReturnedIdHeld ==
    [][\A t \in Tasks :
          (tpc[t] /= "idle" /\ tpc'[t] = "idle" /\ loc'[t].outcome = "response")
          => /\ loc'[t].final_session_id \in Ids
             /\ Lookup(active_sessions', sessions', loc'[t].final_session_id) /= 0
             /\ loc'[t].accounted]_vars

\* C35: get_or_create_session(user, id) never returns a session whose user_id
\* differs from user, so run_command neither resumes another user's
\* conversation nor charges usage to another user's session.
C35_OwnSessionOnly ==
    \A t \in Tasks :
        loc[t].session /= 0 => obj[loc[t].session].user_id = loc[t].user_id

\* C38: per session, is_new_session only ever changes from true to false, and
\* once it is false the session_id never changes: a session is renamed at
\* most once, and only from its placeholder id to an agent-assigned id.
C38_RenamedOnce ==
    [][\A o \in 1..nObj :
          /\ ~obj[o].is_new_session =>
                /\ ~obj'[o].is_new_session
                /\ obj'[o].session_id = obj[o].session_id
          /\ obj'[o].session_id /= obj[o].session_id =>
                /\ IsTemp(obj[o].session_id)
                /\ obj'[o].session_id \in AgentIds]_vars

\* no session-manager operation is in progress
Quiescent == \A t \in Tasks : tpc[t] = "idle"

\* C40: whenever no session-manager operation is in progress, every entry of
\* active_sessions is stored under a key equal to its session_id and durable
\* storage holds a session under that id; and what remove_session or
\* cleanup_expired_sessions removed is neither in the cache nor in storage.
C40_CacheMatchesStorage ==
    Quiescent =>
        /\ \A k \in Ids :
              active_sessions[k] /= 0 =>
                  /\ obj[active_sessions[k]].session_id = k
                  /\ sessions[k] /= 0
        /\ \A t \in Tasks :
              /\ loc[t].outcome = "cleaned" => loc[t].clean
              /\ \A o \in loc[t].removed :
                    \A k \in Ids : active_sessions[k] /= o /\ sessions[k] /= o

(***************************************************************************)
(* Claim about the stored form of a session (checked under SpecDict).      *)
(***************************************************************************)
\* C39: ClaudeSession.from_dict(s.to_dict()) equals s in every field,
\* is_new_session included, so a session reloaded from durable storage is
\* in the lifecycle state (NEW or ACTIVE) in which it was saved.
C39_RoundTrip ==
    dpc = "done" => loaded = saved

====
